---- MODULE Spec2Model ----
(***************************************************************************)
(* Model of the visibility-culling and asynchronous depth-sort scheduler   *)
(* of the Viewer (src/src/Viewer.js): updateView, gatherSceneNodes, the    *)
(* sortWorker.onmessage handler and the frame loop, together with the      *)
(* message channel to the sort worker.                                     *)
(*                                                                         *)
(* Numbers.  The code computes in IEEE doubles; the model computes in      *)
(* exact integers.  Positions and lengths are in units of 1/PosScale world *)
(* units, direction vectors in units of 1/DirScale, and every comparison   *)
(* of lengths is made on the squares (sqrt is monotone).                   *)
(***************************************************************************)
EXTENDS Integers, Sequences, FiniteSets, TLC

(***************************************************************************)
(* Fixed-point units and program constants                                 *)
(***************************************************************************)
\* one world unit, in position units (positions are multiples of 1/2)
PosScale == 2
\* the length of a unit direction vector such as Vector3(0, 0, -1)
DirScale == 20
\* Viewer.js:631  sortViewDir.dot(lastSortViewDir) <= 0.95   (19/20)
RotationThreshold == 19
\* Viewer.js:632  ...length() >= 1.0
TranslationThreshold == 1
\* Viewer.js:459
MaximumDistanceToSort == 125
\* Viewer.js:487-488  the slack .4 subtracted from cos(fov/2)   (8/20)
FovSlack == 8
\* Viewer.js:466-467  cos(fovX/2), cos(fovY/2) of the viewport, in 1/DirScale
CosFovXOver2 == 13
CosFovYOver2 == 18
\* geometry.instanceCount of a fresh InstancedBufferGeometry (Infinity)
InfiniteCount == 0 - 1

(***************************************************************************)
(* Bounds of the model                                                     *)
(***************************************************************************)
\* the camera moves on the z axis between 0 and MaxCamZ position units
MaxCamZ == 2

(***************************************************************************)
(* Vectors (THREE.Vector3)                                                 *)
(***************************************************************************)
Vec(x, y, z) == <<x, y, z>>
VSub(a, b) == <<a[1] - b[1], a[2] - b[2], a[3] - b[3]>>
VDot(a, b) == a[1] * b[1] + a[2] * b[2] + a[3] * b[3]
LengthSq(a) == VDot(a, a)

\* a * p < b * q for a, b, p, q >= 0, a > 0, computed without leaving 32 bits
LessProd(a, p, b, q) ==
    LET k == q \div a
        r == q % a
        d == p - b * k
    IN  IF d < 0 THEN TRUE
        ELSE IF d = 0 THEN b * r > 0
        ELSE IF d >= b THEN FALSE
        ELSE a * d < b * r

(***************************************************************************)
(* Camera orientations: yaw about the Y axis, as (sin, cos) in 1/DirScale. *)
(* Yaw 1 looks down -z.  Yaw 2 is the fixed-point direction whose dot      *)
(* product with (0,0,-1) is exactly 0.95.  Yaws 3 and 4 are the 3-4-5      *)
(* rotations (dot 0.96 with each other).  Yaw 5 looks down +z.  Yaw 6 lies *)
(* between yaw 1 and yaw 2 (dot 1.0 with yaw 1 and 0.995 with yaw 2, in    *)
(* fixed point); only the behaviours of slow camera motion use it.         *)
(***************************************************************************)
YawSin == <<0, 6, 12, 16, 0, 3>>
YawCos == <<20, 19, 16, 12, 0 - 20, 20>>
Yaws == 1..(Len(YawSin) - 1)

\* the orientations of a slowly turning camera
SlowYaws == 1..Len(YawSin)

\* Vector3(0, 0, -1).applyQuaternion(camera.quaternion)
ViewDir(yaw) == Vec(0 - YawSin[yaw], 0, 0 - YawCos[yaw])

\* v.transformDirection(camera.matrixWorld inverted), up to a positive factor
ToCameraSpace(v, yaw) ==
    Vec(YawCos[yaw] * v[1] - YawSin[yaw] * v[3],
        DirScale * v[2],
        YawSin[yaw] * v[1] + YawCos[yaw] * v[3])

CamPositions == {Vec(0, 0, z) : z \in 0..MaxCamZ}

(***************************************************************************)
(* Scenes: the leaf buckets of the octree (octree.nodesWithIndexes), in    *)
(* storage order.  Coordinates are in position units (half world units).   *)
(*   around: a small bucket 10 units ahead, a large bucket around the      *)
(*           camera centred 15 units behind, a small one 150 units behind  *)
(*   line:   three small buckets 10, 50 and 200 units ahead, 5 splats each *)
(*   empty:  a scene without splats                                        *)
(*   side:   buckets far to the left and far above, slightly ahead, one    *)
(*           straight ahead, and two small ones just behind the origin     *)
(*           (the first exactly as far from it as its size)                *)
(*   ties:   two buckets mirrored about the z axis, behind a nearer one    *)
(*   edge:   buckets 126, 125 and 124 units ahead                          *)
(***************************************************************************)
Bucket(c, h, ix) ==
    [center |-> c, min |-> VSub(c, Vec(h, h, h)),
     max |-> VSub(c, Vec(0 - h, 0 - h, 0 - h)), indexes |-> ix]

SceneNodes(scene) ==
    CASE scene = "around" ->
           << Bucket(Vec(0, 0, 300), 1, <<1>>),
              Bucket(Vec(0, 0, 0 - 20), 1, <<2, 0>>),
              Bucket(Vec(0, 0, 30), 20, <<3>>) >>
      [] scene = "line" ->
           << Bucket(Vec(0, 0, 0 - 400), 1, <<2, 5, 8, 11, 14>>),
              Bucket(Vec(0, 0, 0 - 20), 1, <<1, 4, 7, 10, 13>>),
              Bucket(Vec(0, 0, 0 - 100), 1, <<0, 3, 6, 9, 12>>) >>
      [] scene = "side" ->
           << Bucket(Vec(0 - 40, 0, 0 - 2), 1, <<0, 1>>),
              Bucket(Vec(0, 40, 0 - 2), 1, <<2>>),
              Bucket(Vec(0 - 2, 0 - 2, 6), 1, <<3>>),
              Bucket(Vec(0, 0, 0 - 20), 1, <<4>>),
              Bucket(Vec(2, 2, 2), 1, <<5>>) >>
      [] scene = "ties" ->
           << Bucket(Vec(6, 0, 0 - 20), 1, <<0>>),
              Bucket(Vec(0, 0, 0 - 10), 1, <<1, 2>>),
              Bucket(Vec(0 - 6, 0, 0 - 20), 1, <<3>>) >>
      [] scene = "edge" ->
           << Bucket(Vec(0, 0, 0 - 252), 1, <<0>>),
              Bucket(Vec(0, 0, 0 - 250), 1, <<1, 2>>),
              Bucket(Vec(0, 0, 0 - 248), 1, <<3>>) >>
      [] OTHER -> << >>

\* the scenes of the behaviours of the whole viewer
Scenes == {"around", "line", "empty"}

\* the scenes gatherSceneNodes is run on by itself
GatherScenes == Scenes \cup {"side", "ties", "edge"}

RECURSIVE SumCounts(_, _)
\* the total member count of the buckets nodes[order[1]], nodes[order[2]], ...
SumCounts(nodes, order) ==
    IF order = << >> THEN 0
    ELSE Len(nodes[Head(order)].indexes) + SumCounts(nodes, Tail(order))

\* splatBuffer.getVertexCount()
VertexCount(scene) ==
    SumCounts(SceneNodes(scene), [i \in 1..Len(SceneNodes(scene)) |-> i])

(***************************************************************************)
(* gatherSceneNodes: the culler, the orderer and the packing               *)
(***************************************************************************)
\* nodeSize(node), squared
NodeSizeSq(node) == LengthSq(VSub(node.max, node.min))

\* distanceToNode, squared
DistanceToNodeSq(node, pos) == LengthSq(VSub(node.center, pos))

\* forward.dot(w) < (cosFov - .4), where w is the camera-space direction
\* with one axis zeroed (a is the other axis, z the depth axis) and
\* normalized; normalize() leaves the zero vector zero
OutOfFov(a, z, cosFov) ==
    LET t  == cosFov - FovSlack
        n2 == a * a + z * z
    IN  IF n2 = 0 THEN 0 < t
        ELSE IF t >= 0
             THEN IF z >= 0 THEN (z # 0) \/ (t > 0)
                  ELSE LessProd(DirScale * DirScale, z * z, t * t, n2)
             ELSE IF z <= 0 THEN FALSE
                  ELSE LessProd(t * t, n2, DirScale * DirScale, z * z)

\* faulty variant: the angle tests are left out of the condition
CulledOnDistanceOnly(node, pos, yaw, gatherAllNodes) ==
    /\ ~gatherAllNodes
    /\ DistanceToNodeSq(node, pos) > NodeSizeSq(node)

\* faulty variant: a bucket exactly as far as its size is skipped too
CulledAtSize(node, pos, yaw, gatherAllNodes) ==
    LET v == ToCameraSpace(VSub(node.center, pos), yaw)
        outOfFovY == OutOfFov(v[2], v[3], CosFovYOver2)
        outOfFovX == OutOfFov(v[1], v[3], CosFovXOver2)
    IN  /\ ~gatherAllNodes
        /\ (outOfFovX \/ outOfFovY)
        /\ DistanceToNodeSq(node, pos) >= NodeSizeSq(node)

\* faulty variant: gatherAllNodes is not looked at
CulledIgnoringGatherAll(node, pos, yaw, gatherAllNodes) ==
    LET v == ToCameraSpace(VSub(node.center, pos), yaw)
        outOfFovY == OutOfFov(v[2], v[3], CosFovYOver2)
        outOfFovX == OutOfFov(v[1], v[3], CosFovXOver2)
    IN  /\ (outOfFovX \/ outOfFovY)
        /\ DistanceToNodeSq(node, pos) > NodeSizeSq(node)

\* the test of line 489: the bucket is skipped
Culled(node, pos, yaw, gatherAllNodes) ==
    LET v == ToCameraSpace(VSub(node.center, pos), yaw)
        outOfFovY == OutOfFov(v[2], v[3], CosFovYOver2)
        outOfFovX == OutOfFov(v[1], v[3], CosFovXOver2)
    IN  /\ ~gatherAllNodes
        /\ (outOfFovX \/ outOfFovY)
        /\ DistanceToNodeSq(node, pos) > NodeSizeSq(node)

\* the indices (into nodesWithIndexes) of the buckets the loop keeps
Kept(nodes, pos, yaw, gatherAllNodes) ==
    {i \in 1..Len(nodes) : ~Culled(nodes[i], pos, yaw, gatherAllNodes)}

\* faulty variant: line 504 assigns nodeRenderCount, the number of buckets
VerticesToCopyCountsBuckets(nodes, pos, yaw, gatherAllNodes) ==
    Cardinality(Kept(nodes, pos, yaw, gatherAllNodes))

\* verticesToCopy
VerticesToCopy(nodes, pos, yaw, gatherAllNodes) ==
    LET kept == Kept(nodes, pos, yaw, gatherAllNodes)
        RECURSIVE Sum(_)
        Sum(S) == IF S = {} THEN 0
                  ELSE LET i == CHOOSE j \in S : TRUE
                       IN  Len(nodes[i].indexes) + Sum(S \ {i})
    IN  Sum(kept)

\* faulty variant: the comparator puts the nearer bucket last
SortsAfterNearer(a, b, pos) == DistanceToNodeSq(a, pos) < DistanceToNodeSq(b, pos)

\* the comparator of nodeRenderList.sort: a goes after b
SortsAfter(a, b, pos) == DistanceToNodeSq(a, pos) > DistanceToNodeSq(b, pos)

\* faulty variant: the list is not sorted, it stays in the order of the loop
UnsortedOrders(nodes, pos, yaw, gatherAllNodes) ==
    LET kept == Kept(nodes, pos, yaw, gatherAllNodes)
        n    == Cardinality(kept)
    IN  {o \in [1..n -> kept] : \A i, j \in 1..n : i < j => o[i] < o[j]}

\* the orders nodeRenderList.sort can leave: the permutations of the kept
\* buckets in which no bucket precedes one the comparator puts before it
SortedOrders(nodes, pos, yaw, gatherAllNodes) ==
    LET kept == Kept(nodes, pos, yaw, gatherAllNodes)
        n    == Cardinality(kept)
    IN  {o \in [1..n -> kept] :
           /\ \A i, j \in 1..n : i # j => o[i] # o[j]
           /\ \A i \in 1..n : \A j \in 1..n :
                 i < j => ~SortsAfter(nodes[o[i]], nodes[o[j]], pos)}

\* faulty variant: a bucket exactly MaximumDistanceToSort away is not counted
ShouldSortStrict(node, pos) ==
    DistanceToNodeSq(node, pos) <
        (MaximumDistanceToSort * PosScale) * (MaximumDistanceToSort * PosScale)

\* shouldSort
ShouldSort(node, pos) ==
    DistanceToNodeSq(node, pos) <=
        (MaximumDistanceToSort * PosScale) * (MaximumDistanceToSort * PosScale)

RECURSIVE SortCount(_, _, _)
\* vertexSortCount after the packing loop over order
SortCount(nodes, order, pos) ==
    IF order = << >> THEN 0
    ELSE (IF ShouldSort(nodes[Head(order)], pos)
          THEN Len(nodes[Head(order)].indexes) ELSE 0)
         + SortCount(nodes, Tail(order), pos)

RECURSIVE PackedAtOffsetZero(_, _)
\* faulty variant: currentByteOffset is not advanced, every bucket is
\* written at the start of the buffer
PackedAtOffsetZero(nodes, order) ==
    IF order = << >> THEN << >>
    ELSE LET first == nodes[Head(order)].indexes
             rest  == PackedAtOffsetZero(nodes, Tail(order))
             n     == IF Len(first) > Len(rest) THEN Len(first) ELSE Len(rest)
         IN  [i \in 1..n |-> IF i <= Len(rest) THEN rest[i] ELSE first[i]]

RECURSIVE Packed(_, _)
\* the index arrays of the buckets of order, one after the other
Packed(nodes, order) ==
    IF order = << >> THEN << >>
    ELSE nodes[Head(order)].indexes \o Packed(nodes, Tail(order))

\* destView.set(node.data.indexes) at increasing byte offsets from the
\* start of the buffer; the elements past the packed ones are left alone
WriteIn(in, packed) ==
    [i \in 1..Len(in) |-> IF i <= Len(packed) THEN packed[i] ELSE in[i]]


(***************************************************************************)
(* State                                                                   *)
(***************************************************************************)
VARIABLES
    splatBuffer,        \* the loaded scene, "none" before loadFile's load ends
                        \* (octree, splatMesh and sortWorker are set with it)
    camPos, camYaw,     \* camera.position, camera.quaternion
    lastSortViewPos,    \* closure state of updateView (the camera snapshot)
    lastSortViewDir,
    sortViewDir,        \* closure scratch vector of updateView
    sortRunning,
    splatRenderingInitialized,
    vertexRenderCount, vertexSortCount,
    indexArraysAllocated, \* inIndexArray / outIndexArray are not null
    inIndexArray, outIndexArray,
    splatIndex,         \* geometry.attributes.splatIndex (published order)
    instanceCount,      \* geometry.instanceCount
    workerState,        \* the sort worker: "none", "created", "running"
    toWorker,           \* messages posted to the worker, not yet taken
    fromWorker,         \* messages posted by the worker, not yet handled
    nodeRenderList,     \* closure array of gatherSceneNodes: the buckets
                        \* (indices into nodesWithIndexes) of the last pass
    attributeUploads,   \* the calls of updateSplatMeshAttributes so far
    loadFileResolved,   \* resolve() of loadFile's promise has been called
    selfDrivenMode,     \* params.selfDrivenMode, as a truth value
    selfDrivenModeRunning,
    animationFrames,    \* callbacks requested with requestAnimationFrame
                        \* and not yet called
    anim,               \* a SplatAnim: the reference mesh's per-face tables
    splat,              \* the position, scale and rotation objects handed
                        \* to applyBindingTransform
    binding,            \* the binding passed, when the last step was an
                        \* applyBindingTransform
    reads,              \* history: the table entries the last step read
    lastOp,             \* history: the operation that made the last step
    atSubmit            \* history: what was published when the last job
                        \* was submitted

vars == <<splatBuffer, camPos, camYaw, lastSortViewPos, lastSortViewDir,
          sortViewDir, sortRunning, splatRenderingInitialized,
          vertexRenderCount, vertexSortCount, indexArraysAllocated,
          inIndexArray, outIndexArray, splatIndex, instanceCount,
          workerState, toWorker, fromWorker, nodeRenderList,
          attributeUploads, loadFileResolved, selfDrivenMode,
          selfDrivenModeRunning, animationFrames, anim, splat, binding,
          reads, lastOp, atSubmit>>

\* what start() and selfDrivenUpdate read and write
driveVars == <<selfDrivenMode, selfDrivenModeRunning, animationFrames>>

\* a viewer constructed in self-driven mode (the default, line 27) on
\* which start() has not been called
NotStarted ==
    /\ selfDrivenMode = TRUE
    /\ selfDrivenModeRunning = FALSE
    /\ animationFrames = 0

\* the variables of the viewer, which SplatAnim never touches
viewerVars == <<splatBuffer, camPos, camYaw, lastSortViewPos, lastSortViewDir,
                sortViewDir, sortRunning, splatRenderingInitialized,
                vertexRenderCount, vertexSortCount, indexArraysAllocated,
                inIndexArray, outIndexArray, splatIndex, instanceCount,
                workerState, toWorker, fromWorker, nodeRenderList,
                attributeUploads, loadFileResolved, selfDrivenMode,
                selfDrivenModeRunning, animationFrames, atSubmit>>

\* what applyBindingTransform reads and writes
animVars == <<anim, splat, binding, reads>>

\* a number that may be NaN: <<n>> is the number n, <<>> is NaN
NaN == <<>>
Num(n) == <<n>>

\* new SplatAnim(): no reference mesh and empty tables.  part_000 starts
\* faces as an empty array (line 7), part_001 as null (line 7); this.scale
\* is not a number until updateMesh has run
NewSplatAnim(revision) ==
    [revision |-> revision, referenceMesh |-> FALSE,
     facesIsNull |-> (revision = "part_001"), faces |-> <<>>,
     orientations |-> <<>>, scales |-> <<>>, faceCenters |-> <<>>,
     quats |-> <<>>, scale |-> NaN]

\* a viewer without skeletal binding: a SplatAnim nobody has called
NoAnim ==
    /\ anim = NewSplatAnim("part_001")
    /\ splat = [position |-> Vec(0, 0, 0),
                scale |-> <<Num(0), Num(0), Num(0)>>,
                rotation |-> <<0, 0, 0, 1>>]
    /\ binding = 0
    /\ reads = {}

Msg(kind, renderCount, sortCount, position, yaw) ==
    [kind |-> kind, vertexRenderCount |-> renderCount,
     vertexSortCount |-> sortCount, cameraPosition |-> position, view |-> yaw]

Signal(kind) == Msg(kind, 0, 0, Vec(0, 0, 0), 1)

Op(name, force, outcome) == [op |-> name, force |-> force, outcome |-> outcome]

Zeros(n) == [i \in 1..n |-> 0]

Published(order, count) == [splatIndex |-> order, instanceCount |-> count]

\* faulty variant: the in array is left as it was allocated
SeedInWithZeros(n) == [i \in 1..n |-> 0]

\* faulty variant: the seeding loop counts from 1
SeedInFromOne(n) == [i \in 1..n |-> i]

\* line 328: for (let i = 0; i < vertexCount; i++) this.inIndexArray[i] = i
SeedIn(n) == [i \in 1..n |-> i - 1]

\* the fields the constructor and init() set whatever the parameters
Constructed ==
    /\ splatBuffer = "none"
    /\ camPos \in CamPositions
    /\ camYaw \in Yaws
    /\ lastSortViewPos = Vec(0, 0, 0)
    /\ lastSortViewDir = Vec(0, 0, 0 - DirScale)
    /\ sortViewDir = Vec(0, 0, 0 - DirScale)
    /\ sortRunning = FALSE
    /\ splatRenderingInitialized = FALSE
    /\ vertexRenderCount = 0
    /\ vertexSortCount = 0
    /\ indexArraysAllocated = FALSE
    /\ inIndexArray = << >>
    /\ outIndexArray = << >>
    /\ splatIndex = << >>
    /\ instanceCount = InfiniteCount
    /\ workerState = "none"
    /\ toWorker = << >>
    /\ fromWorker = << >>
    /\ nodeRenderList = << >>
    /\ attributeUploads = 0
    /\ loadFileResolved = FALSE
    /\ lastOp = Op("init", FALSE, "none")
    /\ atSubmit = Published(<< >>, InfiniteCount)

\* the state after the constructor and init(), selfDrivenMode defaulted
Init == Constructed /\ NotStarted /\ NoAnim

(***************************************************************************)
(* updateView                                                              *)
(***************************************************************************)
\* faulty variant: the rotation boundary is exclusive
NeedsRefreshForRotationStrict(dir, lastDir) ==
    VDot(dir, lastDir) < RotationThreshold * DirScale

\* line 631
NeedsRefreshForRotation(dir, lastDir) ==
    VDot(dir, lastDir) <= RotationThreshold * DirScale

\* faulty variant: the translation boundary is exclusive
NeedsRefreshForPositionStrict(pos, lastPos) ==
    LengthSq(VSub(pos, lastPos)) >
        (TranslationThreshold * PosScale) * (TranslationThreshold * PosScale)

\* line 632
NeedsRefreshForPosition(pos, lastPos) ==
    LengthSq(VSub(pos, lastPos)) >=
        (TranslationThreshold * PosScale) * (TranslationThreshold * PosScale)

\* faulty variant: the checks are made for a forced call too
PassesGateChecksForced(force, dir, lastDir, pos, lastPos) ==
    \/ NeedsRefreshForRotation(dir, lastDir)
    \/ NeedsRefreshForPosition(pos, lastPos)

\* lines 627-634: the call goes on past the view-change checks
PassesGate(force, dir, lastDir, pos, lastPos) ==
    \/ force
    \/ NeedsRefreshForRotation(dir, lastDir)
    \/ NeedsRefreshForPosition(pos, lastPos)

\* faulty variant: the running job is not looked at
MaySubmitAlways(running) == TRUE

\* line 642
MaySubmit(running) == ~running

\* line 654
SnapshotPos(pos, lastPos) == pos

\* what a call leaves behind
Result(outcome, dir, running, list, renderCount, sortCount, in, posted, lastPos, lastDir) ==
    [outcome |-> outcome, sortViewDir |-> dir, sortRunning |-> running,
     nodeRenderList |-> list,
     vertexRenderCount |-> renderCount, vertexSortCount |-> sortCount,
     inIndexArray |-> in, posted |-> posted,
     lastSortViewPos |-> lastPos, lastSortViewDir |-> lastDir]

\* faulty variant: the gather ran (and reset the counts) before the checks
NoEffectResetsCounts(outcome, dir) ==
    Result(outcome, dir, sortRunning, nodeRenderList, 0, 0,
           inIndexArray, << >>, lastSortViewPos, lastSortViewDir)

\* faulty variant: the snapshot is taken outside the if of line 642
NoEffectMovesSnapshot(outcome, dir) ==
    Result(outcome, dir, sortRunning, nodeRenderList,
           vertexRenderCount, vertexSortCount,
           inIndexArray, << >>, camPos, dir)

\* the call changes nothing but the scratch vector
NoEffect(outcome, dir) ==
    Result(outcome, dir, sortRunning, nodeRenderList,
           vertexRenderCount, vertexSortCount,
           inIndexArray, << >>, lastSortViewPos, lastSortViewDir)

\* the outcomes of updateView(force, gatherAllNodes) in the current state
UpdateView(force, gatherAllNodes) ==
    LET dir   == IF force THEN sortViewDir ELSE ViewDir(camYaw)
        nodes == SceneNodes(splatBuffer)
    IN  IF ~PassesGate(force, dir, lastSortViewDir, camPos, lastSortViewPos)
        THEN {NoEffect("gated", dir)}
        ELSE IF ~MaySubmit(sortRunning)
        THEN {NoEffect("dropped", dir)}
        ELSE IF splatBuffer = "none"
        \* gatherSceneNodes reads this.octree.nodesWithIndexes of null
        THEN {NoEffect("threw", dir)}
        ELSE
          { IF indexArraysAllocated
            THEN Result("submitted", dir, TRUE, order,
                        VerticesToCopy(nodes, camPos, camYaw, gatherAllNodes),
                        SortCount(nodes, order, camPos),
                        WriteIn(inIndexArray, Packed(nodes, order)),
                        << Msg("sort",
                               VerticesToCopy(nodes, camPos, camYaw, gatherAllNodes),
                               SortCount(nodes, order, camPos), camPos, camYaw) >>,
                        SnapshotPos(camPos, lastSortViewPos), dir)
            ELSE IF order = << >>
            \* gatherSceneNodes returns, sortRunning is set, and building the
            \* message reads this.inIndexArray.buffer of null
            THEN Result("threwRunning", dir, TRUE, order, 0, 0, inIndexArray, << >>,
                        lastSortViewPos, lastSortViewDir)
            \* the packing loop reads this.inIndexArray.buffer of null at its
            \* first bucket
            ELSE Result("threw", dir, sortRunning, order,
                        VerticesToCopy(nodes, camPos, camYaw, gatherAllNodes),
                        SortCount(nodes, << Head(order) >>, camPos),
                        inIndexArray, << >>, lastSortViewPos, lastSortViewDir)
            : order \in SortedOrders(nodes, camPos, camYaw, gatherAllNodes) }

\* the call came back to its caller (it did not throw)
Returned(outcome) == outcome \notin {"threw", "threwRunning"}

\* the assignments of one call of updateView with result r
ApplyUpdateView(r) ==
    /\ sortViewDir' = r.sortViewDir
    /\ sortRunning' = r.sortRunning
    /\ nodeRenderList' = r.nodeRenderList
    /\ vertexRenderCount' = r.vertexRenderCount
    /\ vertexSortCount' = r.vertexSortCount
    /\ inIndexArray' = r.inIndexArray
    /\ lastSortViewPos' = r.lastSortViewPos
    /\ lastSortViewDir' = r.lastSortViewDir


(***************************************************************************)
(* The frame-driving side                                                  *)
(***************************************************************************)
\* loadFile: the load promise is fulfilled with the scene's splat buffer
LoadFile(scene) ==
    /\ splatBuffer = "none"
    /\ splatBuffer' = scene
    /\ vertexRenderCount' = VertexCount(scene)
    /\ splatIndex' = Zeros(VertexCount(scene))
    /\ workerState' = "created"
    /\ lastOp' = Op("loadFile", FALSE, "none")
    /\ UNCHANGED <<driveVars, animVars, atSubmit, nodeRenderList, attributeUploads, loadFileResolved,
                   camPos, camYaw, lastSortViewPos, lastSortViewDir,
                   sortViewDir, sortRunning, splatRenderingInitialized,
                   vertexSortCount, indexArraysAllocated, inIndexArray,
                   outIndexArray, instanceCount, toWorker, fromWorker>>

\* the controls (or the host application) move the camera
MoveCamera(pos, yaw) ==
    /\ <<pos, yaw>> # <<camPos, camYaw>>
    /\ camPos' = pos
    /\ camYaw' = yaw
    /\ lastOp' = Op("moveCamera", FALSE, "none")
    /\ UNCHANGED <<driveVars, animVars, atSubmit, nodeRenderList, attributeUploads, loadFileResolved,
                   splatBuffer, lastSortViewPos, lastSortViewDir, sortViewDir,
                   sortRunning, splatRenderingInitialized, vertexRenderCount,
                   vertexSortCount, indexArraysAllocated, inIndexArray,
                   outIndexArray, splatIndex, instanceCount, workerState,
                   toWorker, fromWorker>>

\* faulty variant: the frame waits until the job in flight is answered
UpdateWaitsForSort(running) == ~running

\* selfDrivenUpdate, update and render hold no wait on the sort worker:
\* a frame runs whatever sortRunning is
UpdateMayRun(running) == TRUE

\* one frame: update() (updateView(), updateForRendererSizeChanges()) and
\* render(); the size-change handling and the render read the published
\* order and write none of the state modelled here
UpdateAndRender ==
    \E r \in UpdateView(FALSE, FALSE) :
        /\ UpdateMayRun(sortRunning)
        /\ ApplyUpdateView(r)
        /\ toWorker' = toWorker \o r.posted
        /\ lastOp' = Op("frame", FALSE, r.outcome)
        /\ atSubmit' = IF r.outcome = "submitted"
                       THEN Published(splatIndex, instanceCount) ELSE atSubmit
        /\ UNCHANGED <<splatBuffer, camPos, camYaw, splatRenderingInitialized,
                       indexArraysAllocated, outIndexArray, splatIndex,
                       instanceCount, workerState, fromWorker,
                       attributeUploads, loadFileResolved>>

\* a frame the host application drives: update() and render()
Frame == UpdateAndRender /\ UNCHANGED <<driveVars, animVars>>

(***************************************************************************)
(* sortWorker.onmessage                                                    *)
(***************************************************************************)
\* faulty variant: the whole scene is made active
PublishedCountOfScene(renderVertexCount) == VertexCount(splatBuffer)

\* updateSplatMeshIndexes: geometry.instanceCount = renderVertexCount
PublishedCount(renderVertexCount) == renderVertexCount

\* line 313 and line 316
RunningAfterAnswer == FALSE

\* faulty variant: the sortDone handler uploads the attributes again
AttributeUploadsWithSortDone(uploads) == uploads + 1

\* lines 312-314: the sortDone handler calls updateSplatMeshIndexes only
AttributeUploadsAfterSortDone(uploads) == uploads

\* e.data.sortDone
OnSortDone ==
    /\ fromWorker # << >>
    /\ Head(fromWorker).kind = "sortDone"
    /\ fromWorker' = Tail(fromWorker)
    /\ sortRunning' = RunningAfterAnswer
    /\ splatIndex' = outIndexArray
    /\ instanceCount' = PublishedCount(Head(fromWorker).vertexRenderCount)
    /\ attributeUploads' = AttributeUploadsAfterSortDone(attributeUploads)
    /\ lastOp' = Op("sortDone", FALSE, "none")
    /\ UNCHANGED <<driveVars, animVars, atSubmit, nodeRenderList, loadFileResolved,
                   splatBuffer, camPos, camYaw, lastSortViewPos,
                   lastSortViewDir, sortViewDir, splatRenderingInitialized,
                   vertexRenderCount, vertexSortCount, indexArraysAllocated,
                   inIndexArray, outIndexArray, workerState, toWorker>>

\* e.data.sortCanceled
OnSortCanceled ==
    /\ fromWorker # << >>
    /\ Head(fromWorker).kind = "sortCanceled"
    /\ fromWorker' = Tail(fromWorker)
    /\ sortRunning' = RunningAfterAnswer
    /\ lastOp' = Op("sortCanceled", FALSE, "none")
    /\ UNCHANGED <<driveVars, animVars, atSubmit, nodeRenderList, attributeUploads, loadFileResolved,
                   splatBuffer, camPos, camYaw, lastSortViewPos,
                   lastSortViewDir, sortViewDir, splatRenderingInitialized,
                   vertexRenderCount, vertexSortCount, indexArraysAllocated,
                   inIndexArray, outIndexArray, splatIndex, instanceCount,
                   workerState, toWorker>>

\* e.data.sortSetupPhase1Complete
OnSortSetupPhase1Complete ==
    /\ fromWorker # << >>
    /\ Head(fromWorker).kind = "sortSetupPhase1Complete"
    /\ fromWorker' = Tail(fromWorker)
    /\ toWorker' = Append(toWorker, Signal("positions"))
    /\ indexArraysAllocated' = TRUE
    /\ outIndexArray' = Zeros(VertexCount(splatBuffer))
    /\ inIndexArray' = SeedIn(VertexCount(splatBuffer))
    /\ lastOp' = Op("sortSetupPhase1Complete", FALSE, "none")
    /\ UNCHANGED <<driveVars, animVars, atSubmit, nodeRenderList, attributeUploads, loadFileResolved,
                   splatBuffer, camPos, camYaw, lastSortViewPos,
                   lastSortViewDir, sortViewDir, sortRunning,
                   splatRenderingInitialized, vertexRenderCount,
                   vertexSortCount, splatIndex, instanceCount, workerState>>

\* faulty variant: the request of setupComplete culls like a frame's
SetupCompleteGatherCulled == FALSE

\* line 335: the second argument of this.updateView(true, true)
SetupCompleteGatherAllNodes == TRUE

\* e.data.sortSetupComplete: the two publishes happen before updateView
\* runs, and updateView touches none of what they write
OnSortSetupComplete ==
    /\ fromWorker # << >>
    /\ Head(fromWorker).kind = "sortSetupComplete"
    /\ fromWorker' = Tail(fromWorker)
    /\ splatIndex' = outIndexArray
    /\ instanceCount' = PublishedCount(VertexCount(splatBuffer))
    /\ attributeUploads' = attributeUploads + 1
    /\ \E r \in UpdateView(TRUE, SetupCompleteGatherAllNodes) :
          /\ ApplyUpdateView(r)
          /\ toWorker' = toWorker \o r.posted
          /\ lastOp' = Op("sortSetupComplete", TRUE, r.outcome)
          /\ atSubmit' = IF r.outcome = "submitted"
                         THEN Published(splatIndex', instanceCount')
                         ELSE atSubmit
          \* lines 336-337 are reached when updateView returns
          /\ splatRenderingInitialized' =
                (splatRenderingInitialized \/ Returned(r.outcome))
          /\ loadFileResolved' = (loadFileResolved \/ Returned(r.outcome))
    /\ UNCHANGED <<driveVars, animVars, splatBuffer, camPos, camYaw, indexArraysAllocated,
                   outIndexArray, workerState>>


(***************************************************************************)
(* The sort executor (the worker of ./worker/SortWorker.js), as the         *)
(* message interface describes it: it announces setup phase 1 once,        *)
(* answers the positions with sortSetupComplete, and answers every sort    *)
(* job exactly once, with sortDone or with sortCanceled.                   *)
(***************************************************************************)
\* the order the executor leaves in out for a job: the first renderCount
\* entries of in, the fine-sort prefix reordered (here: reversed)
ExecutorOrder(in, renderCount, sortCount) ==
    [i \in 1..renderCount |->
        IF i <= sortCount THEN in[sortCount + 1 - i] ELSE in[i]]

WorkerSetupPhase1 ==
    /\ workerState = "created"
    /\ workerState' = "running"
    /\ fromWorker' = Append(fromWorker, Signal("sortSetupPhase1Complete"))
    /\ lastOp' = Op("worker", FALSE, "none")
    /\ UNCHANGED <<driveVars, animVars, atSubmit, nodeRenderList, attributeUploads, loadFileResolved,
                   splatBuffer, camPos, camYaw, lastSortViewPos,
                   lastSortViewDir, sortViewDir, sortRunning,
                   splatRenderingInitialized, vertexRenderCount,
                   vertexSortCount, indexArraysAllocated, inIndexArray,
                   outIndexArray, splatIndex, instanceCount, toWorker>>

WorkerPositions ==
    /\ toWorker # << >>
    /\ Head(toWorker).kind = "positions"
    /\ toWorker' = Tail(toWorker)
    /\ fromWorker' = Append(fromWorker, Signal("sortSetupComplete"))
    /\ lastOp' = Op("worker", FALSE, "none")
    /\ UNCHANGED <<driveVars, animVars, atSubmit, nodeRenderList, attributeUploads, loadFileResolved,
                   splatBuffer, camPos, camYaw, lastSortViewPos,
                   lastSortViewDir, sortViewDir, sortRunning,
                   splatRenderingInitialized, vertexRenderCount,
                   vertexSortCount, indexArraysAllocated, inIndexArray,
                   outIndexArray, splatIndex, instanceCount, workerState>>

WorkerSortDone ==
    /\ toWorker # << >>
    /\ Head(toWorker).kind = "sort"
    /\ toWorker' = Tail(toWorker)
    /\ outIndexArray' =
          WriteIn(outIndexArray,
                  ExecutorOrder(inIndexArray, Head(toWorker).vertexRenderCount,
                                Head(toWorker).vertexSortCount))
    /\ fromWorker' = Append(fromWorker,
                            Msg("sortDone", Head(toWorker).vertexRenderCount,
                                0, Vec(0, 0, 0), 1))
    /\ lastOp' = Op("worker", FALSE, "none")
    /\ UNCHANGED <<driveVars, animVars, atSubmit, nodeRenderList, attributeUploads, loadFileResolved,
                   splatBuffer, camPos, camYaw, lastSortViewPos,
                   lastSortViewDir, sortViewDir, sortRunning,
                   splatRenderingInitialized, vertexRenderCount,
                   vertexSortCount, indexArraysAllocated, inIndexArray,
                   splatIndex, instanceCount, workerState>>

WorkerSortCanceled ==
    /\ toWorker # << >>
    /\ Head(toWorker).kind = "sort"
    /\ toWorker' = Tail(toWorker)
    /\ fromWorker' = Append(fromWorker, Signal("sortCanceled"))
    /\ lastOp' = Op("worker", FALSE, "none")
    /\ UNCHANGED <<driveVars, animVars, atSubmit, nodeRenderList, attributeUploads, loadFileResolved,
                   splatBuffer, camPos, camYaw, lastSortViewPos,
                   lastSortViewDir, sortViewDir, sortRunning,
                   splatRenderingInitialized, vertexRenderCount,
                   vertexSortCount, indexArraysAllocated, inIndexArray,
                   outIndexArray, splatIndex, instanceCount, workerState>>

(***************************************************************************)
(* Specification                                                           *)
(***************************************************************************)
Next ==
    \/ \E scene \in Scenes : LoadFile(scene)
    \/ \E pos \in CamPositions, yaw \in Yaws : MoveCamera(pos, yaw)
    \/ Frame
    \/ OnSortDone
    \/ OnSortCanceled
    \/ OnSortSetupPhase1Complete
    \/ OnSortSetupComplete
    \/ WorkerSetupPhase1
    \/ WorkerPositions
    \/ WorkerSortDone
    \/ WorkerSortCanceled

Spec == Init /\ [][Next]_vars


(***************************************************************************)
(* gatherSceneNodes by itself: the pass is run, with either value of       *)
(* gatherAllNodes, in a viewer whose index arrays setup phase 1 has just   *)
(* allocated, on every scene of GatherScenes and from every camera pose.   *)
(***************************************************************************)
\* the state right after the sortSetupPhase1Complete handler, no frame
\* having run
GatherInit ==
    /\ splatBuffer \in GatherScenes
    /\ camPos \in CamPositions
    /\ camYaw \in Yaws
    /\ lastSortViewPos = Vec(0, 0, 0)
    /\ lastSortViewDir = Vec(0, 0, 0 - DirScale)
    /\ sortViewDir = Vec(0, 0, 0 - DirScale)
    /\ sortRunning = FALSE
    /\ splatRenderingInitialized = FALSE
    /\ vertexRenderCount = VertexCount(splatBuffer)
    /\ vertexSortCount = 0
    /\ indexArraysAllocated = TRUE
    /\ inIndexArray = SeedIn(VertexCount(splatBuffer))
    /\ outIndexArray = Zeros(VertexCount(splatBuffer))
    /\ splatIndex = Zeros(VertexCount(splatBuffer))
    /\ instanceCount = InfiniteCount
    /\ workerState = "running"
    /\ toWorker = << Signal("positions") >>
    /\ fromWorker = << >>
    /\ nodeRenderList = << >>
    /\ attributeUploads = 0
    /\ loadFileResolved = FALSE
    /\ lastOp = Op("sortSetupPhase1Complete", FALSE, "none")
    /\ atSubmit = Published(<< >>, InfiniteCount)
    /\ NotStarted
    /\ NoAnim

\* this.gatherSceneNodes(gatherAllNodes); lastOp records the argument in
\* its second field
GatherSceneNodes(gatherAllNodes) ==
    LET nodes == SceneNodes(splatBuffer)
    IN  \E order \in SortedOrders(nodes, camPos, camYaw, gatherAllNodes) :
          /\ nodeRenderList' = order
          /\ vertexRenderCount' =
                VerticesToCopy(nodes, camPos, camYaw, gatherAllNodes)
          /\ vertexSortCount' = SortCount(nodes, order, camPos)
          /\ inIndexArray' = WriteIn(inIndexArray, Packed(nodes, order))
          /\ lastOp' = Op("gatherSceneNodes", gatherAllNodes, "none")
          /\ UNCHANGED <<driveVars, animVars, splatBuffer, camPos, camYaw, lastSortViewPos,
                         lastSortViewDir, sortViewDir, sortRunning,
                         splatRenderingInitialized, indexArraysAllocated,
                         outIndexArray, splatIndex, instanceCount,
                         workerState, toWorker, fromWorker,
                         attributeUploads, loadFileResolved, atSubmit>>

GatherNext ==
    \/ \E gatherAllNodes \in BOOLEAN : GatherSceneNodes(gatherAllNodes)
    \/ \E pos \in CamPositions, yaw \in Yaws : MoveCamera(pos, yaw)

GatherSpec == GatherInit /\ [][GatherNext]_vars


(***************************************************************************)
(* The view-change checks under slow camera motion: the viewer is ready,   *)
(* the forced request of setupComplete has just been submitted and its job *)
(* stays in flight (its sort message, still in the channel, holds the pose *)
(* it was submitted from), and from then on the controls move the camera   *)
(* once per frame, by less than either threshold.                          *)
(***************************************************************************)
\* the state the sortSetupComplete handler leaves when no frame ran before
\* it and the camera looks down -z
GateInit ==
    /\ splatBuffer \in Scenes
    /\ camPos \in CamPositions
    /\ camYaw = 1
    /\ lastSortViewPos = camPos
    /\ lastSortViewDir = Vec(0, 0, 0 - DirScale)
    /\ sortViewDir = Vec(0, 0, 0 - DirScale)
    /\ sortRunning = TRUE
    /\ splatRenderingInitialized = TRUE
    /\ vertexRenderCount = VertexCount(splatBuffer)
    /\ indexArraysAllocated = TRUE
    /\ \E order \in SortedOrders(SceneNodes(splatBuffer), camPos, camYaw, TRUE) :
          /\ nodeRenderList = order
          /\ vertexSortCount = SortCount(SceneNodes(splatBuffer), order, camPos)
          /\ inIndexArray = WriteIn(SeedIn(VertexCount(splatBuffer)),
                                    Packed(SceneNodes(splatBuffer), order))
          /\ toWorker = << Msg("sort", VertexCount(splatBuffer),
                               SortCount(SceneNodes(splatBuffer), order, camPos),
                               camPos, camYaw) >>
    /\ outIndexArray = Zeros(VertexCount(splatBuffer))
    /\ splatIndex = Zeros(VertexCount(splatBuffer))
    /\ instanceCount = VertexCount(splatBuffer)
    /\ workerState = "running"
    /\ fromWorker = << >>
    /\ attributeUploads = 1
    /\ loadFileResolved = TRUE
    /\ lastOp = Op("sortSetupComplete", TRUE, "submitted")
    /\ atSubmit = Published(Zeros(VertexCount(splatBuffer)),
                            VertexCount(splatBuffer))
    /\ NotStarted
    /\ NoAnim

\* controls.update() of one frame: the camera moves by less than 1.0 and
\* turns by less than the rotation threshold (dot > 0.95), once between
\* two calls of updateView
StepCamera(pos, yaw) ==
    /\ lastOp.op # "moveCamera"
    /\ LengthSq(VSub(pos, camPos)) < PosScale * PosScale
    /\ 100 * VDot(ViewDir(yaw), ViewDir(camYaw)) > 95 * DirScale * DirScale
    /\ MoveCamera(pos, yaw)

GateNext ==
    \/ \E pos \in CamPositions, yaw \in SlowYaws : StepCamera(pos, yaw)
    \/ Frame

GateSpec == GateInit /\ [][GateNext]_vars


(***************************************************************************)
(* loadFile by file name: the constructed viewer is handed file names,     *)
(* supported or not; a supported file holds any of the scenes.  File names *)
(* are sequences of characters.                                            *)
(***************************************************************************)
SplatSuffix == <<".", "s", "p", "l", "a", "t">>
PlySuffix == <<".", "p", "l", "y">>

FileNames ==
    { <<"a", ".", "s", "p", "l", "a", "t">>,
      <<"a", ".", "p", "l", "y">>,
      <<".", "p", "l", "y">>,
      <<"a", ".", "t", "x", "t">>,
      <<"a", ".", "p", "l", "y", ".", "x">>,
      <<"a", ".", "s", "p", "l", "a", "t", "s">>,
      <<"a", ".", "P", "L", "Y">>,
      <<"p", "l", "y">>,
      <<"a", "s", "p", "l", "a", "t">>,
      <<".", "p", "l">>,
      << >> }

\* faulty variant: the suffix is looked for anywhere in the name (includes)
Includes(name, suffix) ==
    \E i \in 1..Len(name) :
       /\ i + Len(suffix) - 1 <= Len(name)
       /\ SubSeq(name, i, i + Len(suffix) - 1) = suffix

\* fileName.endsWith(suffix)
EndsWith(name, suffix) ==
    /\ Len(name) >= Len(suffix)
    /\ SubSeq(name, Len(name) - Len(suffix) + 1, Len(name)) = suffix

\* faulty variant: a later rejection replaces the first one
SettleLast(promise, outcome) == outcome

\* resolve/reject of a promise: only the first settlement counts
Settle(promise, outcome) == IF promise = "pending" THEN outcome ELSE promise

\* the else branch of line 264 and what follows it in the executor: reject
\* is called with the format error, then fileLoadPromise.then is read of
\* undefined and the TypeError it throws rejects the promise once more
RejectUnsupported ==
    Settle(Settle("pending", "File format not supported"), "TypeError")

\* loadFile(fileName); lastOp records how the returned promise stands when
\* the call returns ("none": pending)
LoadFileByName(name) ==
    IF EndsWith(name, SplatSuffix) \/ EndsWith(name, PlySuffix)
    THEN \E scene \in Scenes : LoadFile(scene)
    ELSE /\ lastOp' = Op("loadFile", FALSE, RejectUnsupported)
         /\ UNCHANGED <<driveVars, animVars, atSubmit, nodeRenderList, attributeUploads,
                        loadFileResolved, splatBuffer, camPos, camYaw,
                        lastSortViewPos, lastSortViewDir, sortViewDir,
                        sortRunning, splatRenderingInitialized,
                        vertexRenderCount, vertexSortCount,
                        indexArraysAllocated, inIndexArray, outIndexArray,
                        splatIndex, instanceCount, workerState, toWorker,
                        fromWorker>>

LoadNext ==
    \/ \E name \in FileNames : LoadFileByName(name)
    \/ \E pos \in CamPositions, yaw \in Yaws : MoveCamera(pos, yaw)
    \/ WorkerSetupPhase1
    \/ OnSortSetupPhase1Complete

LoadSpec == Init /\ [][LoadNext]_vars


(***************************************************************************)
(* start() and the self-driven frame loop: the viewer is constructed with  *)
(* either value of selfDrivenMode, start() may be called any number of     *)
(* times, and the browser calls the requested animation-frame callbacks.   *)
(***************************************************************************)
\* the callbacks that may be pending at once
MaxAnimationFrames == 2

DriveInit ==
    /\ Constructed
    /\ selfDrivenMode \in BOOLEAN
    /\ selfDrivenModeRunning = FALSE
    /\ animationFrames = 0
    /\ NoAnim

\* start()
Start ==
    /\ IF selfDrivenMode
       THEN /\ animationFrames < MaxAnimationFrames
            /\ animationFrames' = animationFrames + 1
            /\ selfDrivenModeRunning' = TRUE
            /\ lastOp' = Op("start", FALSE, "none")
       ELSE /\ lastOp' = Op("start", FALSE, "threw")
            /\ UNCHANGED <<animationFrames, selfDrivenModeRunning>>
    /\ UNCHANGED <<animVars, selfDrivenMode, atSubmit, nodeRenderList,
                   attributeUploads,
                   loadFileResolved, splatBuffer, camPos, camYaw,
                   lastSortViewPos, lastSortViewDir, sortViewDir, sortRunning,
                   splatRenderingInitialized, vertexRenderCount,
                   vertexSortCount, indexArraysAllocated, inIndexArray,
                   outIndexArray, splatIndex, instanceCount, workerState,
                   toWorker, fromWorker>>

\* faulty variant: the next frame is requested after update() and render()
RescheduledAfterUpdate(mode, outcome) == mode /\ Returned(outcome)

\* lines 574-576: the next frame is requested first, in self-driven mode
Rescheduled(mode, outcome) == mode

\* selfDrivenUpdate, called by the browser for a requested animation frame
SelfDrivenUpdate ==
    /\ animationFrames > 0
    /\ UpdateAndRender
    /\ animationFrames' =
          animationFrames - 1
          + (IF Rescheduled(selfDrivenMode, lastOp'.outcome) THEN 1 ELSE 0)
    /\ UNCHANGED <<selfDrivenMode, selfDrivenModeRunning, animVars>>

DriveNext ==
    \/ Start
    \/ SelfDrivenUpdate
    \/ \E pos \in CamPositions, yaw \in Yaws : MoveCamera(pos, yaw)
    \/ \E scene \in Scenes : LoadFile(scene)

DriveSpec == DriveInit /\ [][DriveNext]_vars

(***************************************************************************)
(* SplatAnim: splats bound to the faces of a skinned reference mesh.  The  *)
(* class comes in two revisions, src/unnamed/part_000 and part_001; an     *)
(* object belongs to one of them (anim.revision).                          *)
(***************************************************************************)
MaxFaces == 2
MaxCoordinate == 8

Identity3 == <<<<1, 0, 0>>, <<0, 1, 0>>, <<0, 0, 1>>>>
HalfTurnX == <<<<1, 0, 0>>, <<0, -1, 0>>, <<0, 0, -1>>>>

\* what updateMesh derives for a face: the orientation matrix of its
\* triangle, the quaternion of that matrix, the scale and the centre
FaceEntries ==
    { [orientation |-> Identity3, quat |-> <<0, 0, 0, 1>>, scale |-> 6,
       faceCenter |-> Vec(1, 0, 0)],
      [orientation |-> HalfTurnX, quat |-> <<1, 0, 0, 0>>, scale |-> 12,
       faceCenter |-> Vec(0, 1, 2)] }

\* the reference meshes: up to MaxFaces faces
Meshes == UNION {[1..n -> FaceEntries] : n \in 0..MaxFaces}

\* the splats handed in: centre, scale and normalized rotation
Splats ==
    [position : {Vec(0, 0, 0), Vec(1, 2, -1)},
     scale : {<<Num(0), Num(1), Num(2)>>},
     rotation : {<<0, 1, 0, 0>>}]

\* the binding indexes tried: below, inside and beyond the tables
Bindings == -1..MaxFaces

RECURSIVE SumScales(_)
SumScales(scales) ==
    IF scales = <<>> THEN 0 ELSE Head(scales) + SumScales(Tail(scales))

\* this.scales.reduce((a, b) => a + b, 0) / this.scales.length
MeanScale(scales) ==
    IF scales = <<>> THEN NaN ELSE Num(SumScales(scales) \div Len(scales))

\* updateMesh with a skinned mesh: every per-face table is rebuilt with one
\* entry per face
UpdateMesh(a, mesh) ==
    [a EXCEPT !.referenceMesh = TRUE,
              !.facesIsNull = FALSE,
              !.faces = [i \in 1..Len(mesh) |->
                            <<3 * i - 3, 3 * i - 2, 3 * i - 1>>],
              !.orientations = [i \in 1..Len(mesh) |-> mesh[i].orientation],
              !.quats = [i \in 1..Len(mesh) |-> mesh[i].quat],
              !.scales = [i \in 1..Len(mesh) |-> mesh[i].scale],
              !.faceCenters = [i \in 1..Len(mesh) |-> mesh[i].faceCenter],
              !.scale = MeanScale([i \in 1..Len(mesh) |-> mesh[i].scale])]

\* setReferenceScene with a scene that has no skinned mesh: updateMesh
\* returns at once and the tables stay as they were; part_001 has set faces
\* to null before
ClearMesh(a) ==
    [a EXCEPT !.referenceMesh = FALSE,
              !.facesIsNull = (a.revision = "part_001"),
              !.faces = IF a.revision = "part_001" THEN <<>> ELSE a.faces]

\* array[i] of JavaScript, counted from 0, together with the entry read:
\* value is <<element>>, or <<>> (undefined) outside the array
Read(a, table, i) ==
    [value |-> IF i + 1 \in DOMAIN a[table] THEN <<a[table][i + 1]>> ELSE <<>>,
     entry |-> <<table, i>>]

\* faulty variant: a binding equal to the face count is let through
BeyondFacesStrict(b, faces) == b > Len(faces)

\* binding >= this.faces.length
BeyondFaces(b, faces) == b >= Len(faces)

\* Vector3.applyMatrix3, multiplyScalar, add
ApplyMatrix3(v, m) ==
    Vec(m[1][1] * v[1] + m[1][2] * v[2] + m[1][3] * v[3],
        m[2][1] * v[1] + m[2][2] * v[2] + m[2][3] * v[3],
        m[3][1] * v[1] + m[3][2] * v[2] + m[3][3] * v[3])

MultiplyScalar(v, k) == Vec(v[1] * k, v[2] * k, v[3] * k)

AddVec(v, w) == Vec(v[1] + w[1], v[2] + w[2], v[3] + w[3])

\* a product of two numbers, NaN when either is
Times(x, y) == IF x = NaN \/ y = NaN THEN NaN ELSE Num(x[1] * y[1])

\* Quaternion.multiply: components x, y, z, w
MultiplyQuat(p, q) ==
    <<p[1] * q[4] + p[4] * q[1] + p[2] * q[3] - p[3] * q[2],
      p[2] * q[4] + p[4] * q[2] + p[3] * q[1] - p[1] * q[3],
      p[3] * q[4] + p[4] * q[3] + p[1] * q[2] - p[2] * q[1],
      p[4] * q[4] - p[1] * q[1] - p[2] * q[2] - p[3] * q[3]>>

\* Quaternion.normalize: the identity for length 0, else divided by the
\* length
NormalizeQuat(q) ==
    LET l2 == q[1] * q[1] + q[2] * q[2] + q[3] * q[3] + q[4] * q[4]
        l == CHOOSE r \in 0..l2 : r * r <= l2 /\ l2 < (r + 1) * (r + 1)
    IN  IF l = 0 THEN <<0, 0, 0, 1>> ELSE [i \in 1..4 |-> q[i] \div l]

Origin == Vec(0, 0, 0)

\* applyBindingTransform of part_001 (lines 191-210): the splat after the
\* call, the table entries read and how the call ended
BindingTransform(a, b, s) ==
    IF a.facesIsNull
    THEN [splat |-> s, reads |-> {}, outcome |-> "threw"]
    ELSE IF BeyondFaces(b, a.faces)
    THEN [splat |-> [s EXCEPT !.position = Origin,
                              !.scale = <<Num(0), Num(0), Num(0)>>],
          reads |-> {}, outcome |-> "none"]
    ELSE LET o == Read(a, "orientations", b)
             k == Read(a, "scales", b)
             c == Read(a, "faceCenters", b)
             q == Read(a, "quats", b)
         IN  IF o.value = <<>>
             THEN \* applyMatrix3(undefined) throws a TypeError
                  [splat |-> s, reads |-> {o.entry}, outcome |-> "threw"]
             ELSE [splat |->
                      [position |->
                          AddVec(MultiplyScalar(
                                     ApplyMatrix3(s.position, o.value[1]),
                                     k.value[1]),
                                 c.value[1]),
                       scale |-> [i \in 1..3 |->
                                     Times(s.scale[i], Num(k.value[1]))],
                       rotation |->
                          NormalizeQuat(MultiplyQuat(s.rotation, q.value[1]))],
                   reads |-> {o.entry, k.entry, c.entry, q.entry},
                   outcome |-> "none"]

\* applyBindingTransform of part_000 (lines 118-136): the position is
\* scaled by this.scale, the mean over the faces; scales[binding] is a
\* number, so its .x, .y and .z are undefined and every product is NaN
BindingTransformMeanScale(a, b, s) ==
    IF BeyondFaces(b, a.faces)
    THEN [splat |-> [s EXCEPT !.position = Origin],
          reads |-> {}, outcome |-> "none"]
    ELSE LET o == Read(a, "orientations", b)
             k == Read(a, "scales", b)
             c == Read(a, "faceCenters", b)
             q == Read(a, "quats", b)
         IN  IF o.value = <<>>
             THEN [splat |-> s, reads |-> {o.entry}, outcome |-> "threw"]
             ELSE [splat |->
                      [position |->
                          AddVec(MultiplyScalar(
                                     ApplyMatrix3(s.position, o.value[1]),
                                     a.scale[1]),
                                 c.value[1]),
                       scale |-> <<NaN, NaN, NaN>>,
                       rotation |->
                          NormalizeQuat(MultiplyQuat(s.rotation, q.value[1]))],
                   reads |-> {o.entry, k.entry, c.entry, q.entry},
                   outcome |-> "none"]

Magnitude(x) == IF x < 0 THEN -x ELSE x

\* the splats the model follows: coordinates and scales up to MaxCoordinate
Fits(s) ==
    /\ \A i \in 1..3 : Magnitude(s.position[i]) <= MaxCoordinate
    /\ \A i \in 1..3 :
          IF s.scale[i] = NaN THEN TRUE ELSE s.scale[i][1] <= MaxCoordinate

BindInit ==
    /\ Constructed
    /\ NotStarted
    /\ anim \in {NewSplatAnim("part_000"), NewSplatAnim("part_001")}
    /\ splat \in Splats
    /\ binding = 0
    /\ reads = {}

\* setReferenceScene with a new scene, with or without a skinned mesh
SetReferenceScene(found, mesh) ==
    /\ anim' = IF found THEN UpdateMesh(anim, mesh) ELSE ClearMesh(anim)
    /\ lastOp' = Op("setReferenceScene", FALSE, "none")
    /\ binding' = 0
    /\ reads' = {}
    /\ UNCHANGED <<splat, viewerVars>>

TransformOf(a, b, s) ==
    IF a.revision = "part_001"
    THEN BindingTransform(a, b, s)
    ELSE BindingTransformMeanScale(a, b, s)

\* applyBindingTransform(binding, position, scale, rotation)
ApplyBindingTransform(b) ==
    /\ Fits(splat)
    /\ LET r == TransformOf(anim, b, splat)
       IN  /\ splat' = r.splat
           /\ reads' = r.reads
           /\ lastOp' = Op("applyBindingTransform", FALSE, r.outcome)
    /\ binding' = b
    /\ UNCHANGED <<anim, viewerVars>>

BindNext ==
    \/ \E found \in BOOLEAN, mesh \in Meshes : SetReferenceScene(found, mesh)
    \/ \E b \in Bindings : ApplyBindingTransform(b)

BindSpec == BindInit /\ [][BindNext]_vars



(***************************************************************************)
(* Vocabulary of the properties                                            *)
(***************************************************************************)
\* the sort jobs posted to the executor and not yet answered by a handled
\* sortDone or sortCanceled
Outstanding ==
    Cardinality({i \in 1..Len(toWorker) : toWorker[i].kind = "sort"})
    + Cardinality({i \in 1..Len(fromWorker) :
                      fromWorker[i].kind \in {"sortDone", "sortCanceled"}})

\* the step is a call of updateView (from a frame or from setupComplete)
UpdateViewStep == lastOp'.op \in {"frame", "sortSetupComplete"}

\* the step posts exactly one message, a sort message
PostsOneSort ==
    /\ Len(toWorker') = Len(toWorker) + 1
    /\ SubSeq(toWorker', 1, Len(toWorker)) = toWorker
    /\ toWorker'[Len(toWorker')].kind = "sort"

\* the camera snapshot
Snapshot == <<lastSortViewPos, lastSortViewDir>>

(***************************************************************************)
(* C1  At most one sort job is outstanding: the sort messages posted to    *)
(* the executor and not yet answered by a handled sortDone or sortCanceled *)
(* never number more than 1.                                               *)
(***************************************************************************)
C1_AtMostOneOutstanding == Outstanding <= 1

\* a frame asked for a sort while the one job was outstanding
C1_Witness ==
    /\ Outstanding = 1
    /\ lastOp = Op("frame", FALSE, "dropped")

(***************************************************************************)
(* C2  A call of updateView, forced or not, made while sortRunning is true *)
(* posts nothing and leaves sortRunning, the in buffer, vertexRenderCount, *)
(* vertexSortCount and the camera snapshot as they were.                   *)
(***************************************************************************)
C2_RequestWhileInFlightIsNoOp ==
    [][(UpdateViewStep /\ sortRunning) =>
          /\ toWorker' = toWorker
          /\ sortRunning' = sortRunning
          /\ inIndexArray' = inIndexArray
          /\ vertexRenderCount' = vertexRenderCount
          /\ vertexSortCount' = vertexSortCount
          /\ Snapshot' = Snapshot]_vars

\* the forced request of setupComplete was dropped behind a running job
C2_Witness ==
    /\ lastOp = Op("sortSetupComplete", TRUE, "dropped")
    /\ Outstanding = 1


(***************************************************************************)
(* C3 (as claimed)  sortRunning changes only from false to true in a call  *)
(* of updateView that submits a job, and from true to false in the         *)
(* handling of sortDone or sortCanceled.                                   *)
(***************************************************************************)
C3_OnlySubmitAndAnswerChangeJobState ==
    [][sortRunning' # sortRunning =>
          \/ /\ ~sortRunning
             /\ UpdateViewStep
             /\ PostsOneSort
          \/ /\ sortRunning
             /\ lastOp'.op \in {"sortDone", "sortCanceled"}]_vars


\* C3, what holds: the only other change of sortRunning is the call of
\* updateView that sets it and then throws while building the message
C3_JobStateChangesOfTheCode ==
    [][sortRunning' # sortRunning =>
          \/ /\ ~sortRunning
             /\ UpdateViewStep
             /\ PostsOneSort \/ (lastOp'.outcome = "threwRunning"
                                 /\ ~indexArraysAllocated
                                 /\ toWorker' = toWorker)
          \/ /\ sortRunning
             /\ lastOp'.op \in {"sortDone", "sortCanceled"}]_vars

(***************************************************************************)
(* C4 (as claimed)  The in buffer is written only while the job state is   *)
(* Idle: no step changes an element of inIndexArray while sortRunning is   *)
(* true.                                                                   *)
(***************************************************************************)
C4_InWrittenOnlyWhileIdle ==
    [][inIndexArray' # inIndexArray => ~sortRunning]_vars


\* C4, what holds: no step changes the in buffer while a job is outstanding,
\* and a call of updateView changes it only if sortRunning was false
C4_InNotWrittenWhileJobOutstanding ==
    [][inIndexArray' # inIndexArray =>
          /\ Outstanding = 0
          /\ UpdateViewStep => ~sortRunning]_vars

(***************************************************************************)
(* C5 (as claimed)  A call of updateView that passes the view-change gate  *)
(* while sortRunning is false refills in from the gather pass, sets        *)
(* sortRunning, and posts exactly one sort message, which carries the      *)
(* counts of that gather pass and the camera position of the call.         *)
(***************************************************************************)
C5_IdleRequestSubmits ==
    [][(UpdateViewStep /\ ~sortRunning /\ lastOp'.outcome # "gated") =>
          /\ sortRunning'
          /\ PostsOneSort
          /\ LET m     == toWorker'[Len(toWorker')]
                 nodes == SceneNodes(splatBuffer)
                 all   == lastOp'.op = "sortSetupComplete"
             IN  /\ m.vertexRenderCount = vertexRenderCount'
                 /\ m.vertexSortCount = vertexSortCount'
                 /\ m.cameraPosition = camPos
                 /\ vertexRenderCount' = VerticesToCopy(nodes, camPos, camYaw, all)
                 /\ \E order \in SortedOrders(nodes, camPos, camYaw, all) :
                       /\ vertexSortCount' = SortCount(nodes, order, camPos)
                       /\ inIndexArray' =
                             WriteIn(inIndexArray, Packed(nodes, order))]_vars


\* C5, what holds: the same, for calls made once setup phase 1 has allocated
\* the index arrays
C5_IdleRequestSubmitsAfterPhase1 ==
    [][(UpdateViewStep /\ ~sortRunning /\ lastOp'.outcome # "gated"
        /\ indexArraysAllocated) =>
          /\ sortRunning'
          /\ PostsOneSort
          /\ lastOp'.outcome = "submitted"
          /\ toWorker'[Len(toWorker')].vertexRenderCount = vertexRenderCount'
          /\ toWorker'[Len(toWorker')].vertexSortCount = vertexSortCount'
          /\ toWorker'[Len(toWorker')].cameraPosition = camPos]_vars

(***************************************************************************)
(* C6  Handling sortDone sets sortRunning to false, copies the out buffer  *)
(* into the published index array and sets the instance count to the       *)
(* vertexRenderCount of the message.                                       *)
(***************************************************************************)
C6_SortDonePublishesRenderCount ==
    [][lastOp'.op = "sortDone" =>
          /\ ~sortRunning'
          /\ splatIndex' = outIndexArray
          /\ instanceCount' = Head(fromWorker).vertexRenderCount]_vars

\* a completed job published fewer instances than the scene holds, in an
\* order that is not the one published at setupComplete
C6_Witness ==
    /\ lastOp.op = "sortDone"
    /\ instanceCount >= 0
    /\ instanceCount < VertexCount(splatBuffer)
    /\ splatIndex # Zeros(VertexCount(splatBuffer))

(***************************************************************************)
(* C7 (as claimed)  Handling sortCanceled sets sortRunning to false and    *)
(* publishes nothing: the published index array and instance count are     *)
(* after the handling what they were before the canceled job was           *)
(* submitted.                                                              *)
(***************************************************************************)
C7_CancelLeavesPublishedAsAtSubmit ==
    [][lastOp'.op = "sortCanceled" =>
          /\ ~sortRunning'
          /\ Published(splatIndex', instanceCount') = atSubmit]_vars



\* C7, what holds: the handler clears sortRunning and publishes nothing
C7_CancelPublishesNothing ==
    [][lastOp'.op = "sortCanceled" =>
          /\ ~sortRunning'
          /\ splatIndex' = splatIndex
          /\ instanceCount' = instanceCount]_vars

(***************************************************************************)
(* C8  A non-forced call of updateView goes on past the view-change checks *)
(* iff the dot product of the camera's forward vector with the snapshot    *)
(* direction is <= 0.95 or the camera is >= 1.0 away from the snapshot     *)
(* position (both inclusive); otherwise it changes nothing but its scratch *)
(* vector.                                                                 *)
(***************************************************************************)
C8_GateIffRotatedOrMoved ==
    [][lastOp'.op = "frame" =>
          /\ (lastOp'.outcome # "gated") <=>
                \/ 100 * VDot(ViewDir(camYaw), lastSortViewDir)
                      <= 95 * DirScale * DirScale
                \/ LengthSq(VSub(camPos, lastSortViewPos))
                      >= PosScale * PosScale
          /\ (lastOp'.outcome = "gated") =>
                UNCHANGED <<splatBuffer, camPos, camYaw, lastSortViewPos,
                            lastSortViewDir, sortRunning,
                            splatRenderingInitialized, vertexRenderCount,
                            vertexSortCount, indexArraysAllocated,
                            inIndexArray, outIndexArray, splatIndex,
                            instanceCount, workerState, toWorker, fromWorker,
                            atSubmit>>]_vars

\* a frame went past the checks with the dot product exactly 0.95 and the
\* camera where the snapshot was taken (the request was then dropped, so the
\* snapshot is still the one the checks read)
C8_Witness ==
    /\ lastOp = Op("frame", FALSE, "dropped")
    /\ 100 * VDot(ViewDir(camYaw), lastSortViewDir) = 95 * DirScale * DirScale
    /\ camPos = lastSortViewPos

(***************************************************************************)
(* C9  The forced call of updateView skips both view-change checks: made   *)
(* while sortRunning is false it submits a job, wherever the camera is.    *)
(***************************************************************************)
C9_ForcedRequestSubmitsWhenIdle ==
    [][(lastOp'.op = "sortSetupComplete" /\ lastOp'.force /\ ~sortRunning) =>
          /\ lastOp'.outcome = "submitted"
          /\ sortRunning'
          /\ PostsOneSort]_vars

\* the forced call submitted with the camera exactly at the pose the
\* snapshot held before the call (the initial snapshot: no job had been
\* submitted), so neither check would have let a non-forced call through
C9_Witness ==
    /\ lastOp = Op("sortSetupComplete", TRUE, "submitted")
    /\ camPos = Vec(0, 0, 0)
    /\ camYaw = 1
    /\ sortViewDir = Vec(0, 0, 0 - DirScale)
    /\ Outstanding = 1

(***************************************************************************)
(* C10  The camera snapshot changes only in a call of updateView that      *)
(* submits a job: gated and dropped calls and the message handlers leave   *)
(* lastSortViewPos and lastSortViewDir as they were.                       *)
(***************************************************************************)
C10_SnapshotChangesOnlyOnSubmit ==
    [][Snapshot' # Snapshot =>
          /\ UpdateViewStep
          /\ lastOp'.outcome = "submitted"
          /\ PostsOneSort]_vars

\* a dropped request left a snapshot that is not the camera's pose
C10_Witness ==
    /\ lastOp = Op("frame", FALSE, "dropped")
    /\ splatRenderingInitialized
    /\ camPos # lastSortViewPos
    /\ ViewDir(camYaw) # lastSortViewDir

(***************************************************************************)
(* C11 (as claimed)  A call of updateView that submits a job, forced or    *)
(* not, records the pose it was made with: lastSortViewPos becomes the     *)
(* camera position and lastSortViewDir the camera's forward direction.     *)
(***************************************************************************)
C11_SnapshotEqualsPoseUsed ==
    [][(UpdateViewStep /\ lastOp'.outcome = "submitted") =>
          /\ lastSortViewPos' = camPos
          /\ lastSortViewDir' = ViewDir(camYaw)]_vars

\* C11, what holds: the position is always the camera's; the direction is
\* the camera's for a non-forced call, and for the forced call it is what
\* the scratch vector held (the direction of the last non-forced call, or
\* (0, 0, -1) if there was none)
C11_SnapshotOfTheCode ==
    [][(UpdateViewStep /\ lastOp'.outcome = "submitted") =>
          /\ lastSortViewPos' = camPos
          /\ lastSortViewDir' =
                IF lastOp'.force THEN sortViewDir ELSE ViewDir(camYaw)]_vars

(***************************************************************************)
(* Vocabulary of the properties of gatherSceneNodes.  A pass is a step of  *)
(* GatherSceneNodes; the camera does not move in it, so the pose of the    *)
(* pass is the (camPos, camYaw) of the state before or after it.           *)
(***************************************************************************)
\* the last step was a pass with this value of gatherAllNodes
PassDone(gatherAllNodes) ==
    lastOp = Op("gatherSceneNodes", gatherAllNodes, "none")

\* the step is a pass with this value of gatherAllNodes
PassStep(gatherAllNodes) ==
    lastOp' = Op("gatherSceneNodes", gatherAllNodes, "none")

\* the leaf buckets of the loaded scene, and their indices
Leaves == SceneNodes(splatBuffer)
LeafIds == 1..Len(Leaves)

\* bucket i is in the candidate list
InList(list, i) == \E k \in 1..Len(list) : list[k] = i

\* the two angle tests of bucket i from the camera's pose
FailsXTest(i) ==
    LET v == ToCameraSpace(VSub(Leaves[i].center, camPos), camYaw)
    IN  OutOfFov(v[1], v[3], CosFovXOver2)

FailsYTest(i) ==
    LET v == ToCameraSpace(VSub(Leaves[i].center, camPos), camYaw)
    IN  OutOfFov(v[2], v[3], CosFovYOver2)

\* distanceToNode of bucket i (squared), and its size (squared)
DistSq(i) == LengthSq(VSub(Leaves[i].center, camPos))
SizeSq(i) == LengthSq(VSub(Leaves[i].max, Leaves[i].min))

(***************************************************************************)
(* C12 (as claimed)  With gatherAllNodes false, a bucket is left out of    *)
(* the candidate list only if it fails both the horizontal and the         *)
(* vertical angle test.                                                    *)
(***************************************************************************)
C12_ExcludedOnlyIfBothAngleTestsFail ==
    [][PassStep(FALSE) =>
          \A i \in LeafIds :
             ~InList(nodeRenderList', i) => (FailsXTest(i) /\ FailsYTest(i))]_vars

(***************************************************************************)
(* C12 (amended)  With gatherAllNodes false, a bucket is left out of the   *)
(* candidate list only if it fails at least one of the two angle tests: a  *)
(* bucket that passes both is never left out.                              *)
(***************************************************************************)
C12_ExcludedOnlyIfAnAngleTestFails ==
    [][PassStep(FALSE) =>
          \A i \in LeafIds :
             ~InList(nodeRenderList', i) => (FailsXTest(i) \/ FailsYTest(i))]_vars

\* a pass left out a bucket that fails one angle test and passes the other,
\* and kept a bucket that passes both
C12_Witness ==
    /\ PassDone(FALSE)
    /\ \E i \in LeafIds : /\ ~InList(nodeRenderList, i)
                          /\ FailsXTest(i)
                          /\ ~FailsYTest(i)
    /\ \E i \in LeafIds : /\ ~InList(nodeRenderList, i)
                          /\ ~FailsXTest(i)
                          /\ FailsYTest(i)
    /\ \E i \in LeafIds : /\ InList(nodeRenderList, i)
                          /\ ~FailsXTest(i)
                          /\ ~FailsYTest(i)
                          /\ DistSq(i) > SizeSq(i)

(***************************************************************************)
(* C13  A bucket whose distance to the camera is at most its size (the     *)
(* length of max - min) is in the candidate list whatever its angle to     *)
(* the view direction: every bucket left out is farther than its size.     *)
(***************************************************************************)
C13_BucketWithinItsSizeIsKept ==
    [][(PassStep(FALSE) \/ PassStep(TRUE)) =>
          \A i \in LeafIds :
             DistSq(i) <= SizeSq(i) => InList(nodeRenderList', i)]_vars

\* a pass kept a bucket that fails both angle tests and is exactly as far
\* as its size, and left out one that is farther than its size
C13_Witness ==
    /\ PassDone(FALSE)
    /\ \E i \in LeafIds : /\ InList(nodeRenderList, i)
                          /\ FailsXTest(i)
                          /\ FailsYTest(i)
                          /\ DistSq(i) = SizeSq(i)
    /\ \E i \in LeafIds : /\ ~InList(nodeRenderList, i)
                          /\ DistSq(i) > SizeSq(i)

(***************************************************************************)
(* C14  With gatherAllNodes true nothing is culled: every leaf bucket of   *)
(* the octree is in the candidate list, once, and vertexRenderCount is the *)
(* sum of the member counts of all the buckets, from every camera pose.    *)
(***************************************************************************)
C14_GatherAllKeepsEveryBucket ==
    [][PassStep(TRUE) =>
          /\ Len(nodeRenderList') = Len(Leaves)
          /\ \A i \in LeafIds : InList(nodeRenderList', i)
          /\ vertexRenderCount' = VertexCount(splatBuffer)]_vars

\* a pass with gatherAllNodes true kept a far bucket that fails both angle
\* tests, one that fails only the horizontal and one that fails only the
\* vertical test
C14_Witness ==
    /\ PassDone(TRUE)
    /\ \E i \in LeafIds : /\ InList(nodeRenderList, i)
                          /\ FailsXTest(i) /\ FailsYTest(i)
                          /\ DistSq(i) > SizeSq(i)
    /\ \E i \in LeafIds : /\ InList(nodeRenderList, i)
                          /\ FailsXTest(i) /\ ~FailsYTest(i)
                          /\ DistSq(i) > SizeSq(i)
    /\ \E i \in LeafIds : /\ InList(nodeRenderList, i)
                          /\ ~FailsXTest(i) /\ FailsYTest(i)
                          /\ DistSq(i) > SizeSq(i)
    /\ vertexRenderCount = 6

(***************************************************************************)
(* C15  After the sort the candidate list is non-decreasing in             *)
(* distanceToNode: of two adjacent buckets the earlier one is no farther   *)
(* from the camera than the later one, also when buckets are equally far.  *)
(***************************************************************************)
C15_ListNonDecreasingInDistance ==
    [][(PassStep(FALSE) \/ PassStep(TRUE)) =>
          \A k \in 1..(Len(nodeRenderList') - 1) :
             DistSq(nodeRenderList'[k]) <= DistSq(nodeRenderList'[k + 1])]_vars

\* a pass left a list of three buckets whose last two are equally far, the
\* later-stored of them first, behind a nearer bucket that is stored
\* between them
C15_Witness ==
    /\ PassDone(FALSE)
    /\ Len(nodeRenderList) = 3
    /\ DistSq(nodeRenderList[1]) < DistSq(nodeRenderList[2])
    /\ DistSq(nodeRenderList[2]) = DistSq(nodeRenderList[3])
    /\ nodeRenderList[2] > nodeRenderList[3]
    /\ nodeRenderList[1] > nodeRenderList[3]

(***************************************************************************)
(* C16  After a pass the first vertexRenderCount entries of the in buffer  *)
(* are the member index arrays of the buckets of the candidate list, one   *)
(* after the other in list order, each in its storage order: every member  *)
(* index of a listed bucket occurs there exactly once and no index of a    *)
(* bucket that was left out occurs there.                                  *)
(***************************************************************************)
C16_InHoldsTheListedBucketsInOrder ==
    [][(PassStep(FALSE) \/ PassStep(TRUE)) =>
          LET list == nodeRenderList'
          IN  /\ vertexRenderCount' = SumCounts(Leaves, list)
              /\ \A k \in 1..Len(list) :
                    \A j \in 1..Len(Leaves[list[k]].indexes) :
                       inIndexArray'[SumCounts(Leaves, SubSeq(list, 1, k - 1)) + j]
                          = Leaves[list[k]].indexes[j]
              /\ \A i \in LeafIds :
                    \A j \in 1..Len(Leaves[i].indexes) :
                       Cardinality({p \in 1..vertexRenderCount' :
                                       inIndexArray'[p] = Leaves[i].indexes[j]})
                          = IF InList(list, i) THEN 1 ELSE 0]_vars

\* a pass packed three buckets, the last with two members, in an order that
\* is not their storage order and left others out, so that in is no longer
\* what it was seeded with
C16_Witness ==
    /\ PassDone(FALSE)
    /\ Len(nodeRenderList) = 3
    /\ nodeRenderList[1] > nodeRenderList[2]
    /\ nodeRenderList[2] > nodeRenderList[3]
    /\ Len(Leaves[nodeRenderList[3]].indexes) = 2
    /\ \E i \in LeafIds : ~InList(nodeRenderList, i)
    /\ \E p \in 1..vertexRenderCount : inIndexArray[p] # p - 1

(***************************************************************************)
(* C17  The buckets of the candidate list that are at most 125 away        *)
(* (inclusive) are a prefix of the list, and vertexSortCount is the total  *)
(* member count of exactly those buckets.                                  *)
(***************************************************************************)
C17_FineSortBucketsAreThePrefix ==
    [][(PassStep(FALSE) \/ PassStep(TRUE)) =>
          LET list    == nodeRenderList'
              Fine(i) == DistSq(i) <= (125 * PosScale) * (125 * PosScale)
              k       == Cardinality({p \in 1..Len(list) : Fine(list[p])})
          IN  /\ \A p \in 1..Len(list) : Fine(list[p]) <=> p <= k
              /\ vertexSortCount' = SumCounts(Leaves, SubSeq(list, 1, k))]_vars

\* a pass listed a bucket exactly 125 away, which is counted, and a bucket
\* farther away, which is not
C17_Witness ==
    /\ PassDone(FALSE)
    /\ \E p \in 1..Len(nodeRenderList) :
          DistSq(nodeRenderList[p]) = (125 * PosScale) * (125 * PosScale)
    /\ \E p \in 1..Len(nodeRenderList) :
          DistSq(nodeRenderList[p]) > (125 * PosScale) * (125 * PosScale)
    /\ vertexSortCount = 3
    /\ vertexRenderCount = 4

(***************************************************************************)
(* C18  The sortSetupPhase1Complete handler runs once for a loaded scene;  *)
(* it posts the positions message, creates inIndexArray and outIndexArray  *)
(* with as many elements as the scene has splats and sets in[i] = i for    *)
(* every i.  No other step posts a positions message or creates the        *)
(* arrays, and a sort message is posted only after the positions message.  *)
(***************************************************************************)
C18_Phase1SendsPositionsOnceAndSeedsIn ==
    [][LET Positions(q) ==
              Cardinality({i \in 1..Len(q) : q[i].kind = "positions"})
           n == VertexCount(splatBuffer)
       IN  /\ lastOp'.op = "sortSetupPhase1Complete" =>
                /\ ~indexArraysAllocated
                /\ indexArraysAllocated'
                /\ toWorker' = Append(toWorker, Signal("positions"))
                /\ Len(inIndexArray') = n
                /\ Len(outIndexArray') = n
                /\ \A i \in 0..(n - 1) : inIndexArray'[i + 1] = i
           /\ lastOp'.op # "sortSetupPhase1Complete" =>
                /\ Positions(toWorker') <= Positions(toWorker)
                /\ indexArraysAllocated' = indexArraysAllocated
                /\ Len(inIndexArray') = Len(inIndexArray)
                /\ Len(outIndexArray') = Len(outIndexArray)
           /\ (Len(toWorker') > Len(toWorker)
               /\ toWorker'[Len(toWorker')].kind = "sort") =>
                /\ indexArraysAllocated
                /\ lastOp'.op # "sortSetupPhase1Complete"]_vars

\* the handler has just run for the scene of 15 splats, after a frame that
\* came too early to post anything
C18_Witness ==
    /\ lastOp.op = "sortSetupPhase1Complete"
    /\ VertexCount(splatBuffer) = 15
    /\ Len(outIndexArray) = 15
    /\ inIndexArray[1] = 0
    /\ inIndexArray[15] = 14
    /\ toWorker = << Signal("positions") >>
    /\ nodeRenderList # << >>

(***************************************************************************)
(* C19  The sortSetupComplete handler publishes first (the out array as    *)
(* the index array, the static attributes, the instance count set to the   *)
(* scene's splat count), then makes the forced request, which gathers all  *)
(* buckets, then sets splatRenderingInitialized, then resolves loadFile's  *)
(* promise.  Nothing else sets splatRenderingInitialized or resolves the   *)
(* promise.                                                                *)
(***************************************************************************)
C19_SetupCompletePublishesRequestsThenReady ==
    /\ [](loadFileResolved => splatRenderingInitialized)
    /\ [](splatRenderingInitialized =>
             attributeUploads = 1 /\ instanceCount >= 0)
    /\ [][/\ lastOp'.op = "sortSetupComplete" =>
               /\ splatIndex' = outIndexArray
               /\ instanceCount' = VertexCount(splatBuffer)
               /\ attributeUploads' = attributeUploads + 1
               /\ lastOp'.force
               /\ ~sortRunning =>
                     /\ PostsOneSort
                     /\ toWorker'[Len(toWorker')].vertexRenderCount
                           = VertexCount(splatBuffer)
                     /\ Len(nodeRenderList') = Len(SceneNodes(splatBuffer))
                     /\ atSubmit' = Published(splatIndex', instanceCount')
               /\ splatRenderingInitialized'
               /\ loadFileResolved'
          /\ (\/ splatRenderingInitialized' # splatRenderingInitialized
              \/ loadFileResolved' # loadFileResolved
              \/ attributeUploads' # attributeUploads) =>
                lastOp'.op = "sortSetupComplete"]_vars

\* the handler has just run for the scene of 15 splats with the camera
\* looking away from all of it: the request went out for all 15 splats,
\* behind the publish, and the viewer is ready
C19_Witness ==
    /\ lastOp = Op("sortSetupComplete", TRUE, "submitted")
    /\ splatBuffer = "line"
    /\ Kept(SceneNodes(splatBuffer), camPos, camYaw, FALSE) = {}
    /\ Len(nodeRenderList) = 3
    /\ toWorker # << >>
    /\ toWorker[Len(toWorker)].vertexRenderCount = 15
    /\ instanceCount = 15
    /\ atSubmit = Published(splatIndex, 15)
    /\ attributeUploads = 1
    /\ splatRenderingInitialized
    /\ loadFileResolved

(***************************************************************************)
(* C20 (as claimed)  The out array is published (copied into the index     *)
(* array by updateSplatMeshIndexes) only in the handling of a sortDone     *)
(* message, that is, after the executor completed a job that wrote it,     *)
(* and never while a job is outstanding.                                   *)
(***************************************************************************)
C20_OutReadOnlyAfterSortDone ==
    [][lastOp'.op \in {"sortDone", "sortSetupComplete"} =>
          /\ lastOp'.op = "sortDone"
          /\ Head(fromWorker).kind = "sortDone"
          /\ Outstanding = 1]_vars

\* C20, what holds: the index array is written when the mesh is built and
\* by the two handlers that publish; the publish of a sortDone message
\* happens with no other job outstanding and sortRunning false; the one
\* other publish is that of the sortSetupComplete handler, once, which no
\* completed job need precede
C20_OutReadOfTheCode ==
    [][/\ splatIndex' # splatIndex =>
             lastOp'.op \in {"loadFile", "sortDone", "sortSetupComplete"}
       /\ lastOp'.op = "sortDone" =>
             /\ Outstanding = 1
             /\ ~sortRunning'
             /\ splatIndex' = outIndexArray
       /\ lastOp'.op = "sortSetupComplete" => ~splatRenderingInitialized]_vars

(***************************************************************************)
(* C21  The static attribute data (colours, centres, covariances) is       *)
(* uploaded once per scene load, by the setupComplete handler: no other    *)
(* step (sortDone, sortCanceled, a frame, ...) uploads it, and it is never *)
(* uploaded a second time.                                                 *)
(***************************************************************************)
C21_AttributesUploadedOnceAtSetupComplete ==
    [][ /\ attributeUploads' # attributeUploads
           => /\ lastOp'.op = "sortSetupComplete"
              /\ attributeUploads = 0
              /\ attributeUploads' = 1
        /\ lastOp'.op \in {"sortDone", "sortCanceled", "frame"}
           => attributeUploads' = attributeUploads ]_vars

\* an order has been published by sortDone after the one upload
C21_Witness ==
    /\ lastOp.op = "sortDone"
    /\ attributeUploads = 1
    /\ splatIndex # Zeros(VertexCount(splatBuffer))
    /\ instanceCount > 0

\* the camera pose differs from the snapshot beyond a threshold
Stale ==
    /\ camYaw \in Yaws
    /\ PassesGate(FALSE, ViewDir(camYaw), lastSortViewDir, camPos, lastSortViewPos)

(***************************************************************************)
(* C24  The frame-driving side never waits for the sort executor: once the *)
(* viewer is ready a frame can run in every job state, it runs to          *)
(* completion (the call returns), and it leaves the published draw order   *)
(* and instance count as they are; these change only in the setupComplete  *)
(* and sortDone handlers.                                                  *)
(***************************************************************************)
\* (the first conjunct is the enabling condition of Frame, written out; it
\* is evaluated once per state, on the step that turns the camera to the
\* next orientation, a step every state has)
C24_FrameNeverWaitsNorPublishes ==
    [][ /\ ( /\ splatRenderingInitialized
             /\ lastOp'.op = "moveCamera"
             /\ camPos' = camPos
             /\ camYaw' = (camYaw % Cardinality(Yaws)) + 1 )
           => /\ UpdateMayRun(sortRunning)
              /\ \E r \in UpdateView(FALSE, FALSE) : Returned(r.outcome)
        /\ (splatRenderingInitialized /\ lastOp'.op = "frame")
           => /\ Returned(lastOp'.outcome)
              /\ splatIndex' = splatIndex
              /\ instanceCount' = instanceCount
        /\ ( /\ splatRenderingInitialized
             /\ \/ splatIndex' # splatIndex
                \/ instanceCount' # instanceCount )
           => lastOp'.op \in {"sortSetupComplete", "sortDone"} ]_vars

\* a frame has run while a job was in flight, and the order published
\* before it is still the published one
C24_Witness ==
    /\ splatRenderingInitialized
    /\ lastOp.op = "frame"
    /\ lastOp.outcome = "dropped"
    /\ sortRunning
    /\ Outstanding = 1
    /\ instanceCount > 0
    /\ splatIndex # Zeros(VertexCount(splatBuffer))

(***************************************************************************)
(* C22  Dropped requests are self-correcting: a non-forced request is      *)
(* dropped only while a job is in flight, and when that job is answered    *)
(* with the view still stale the next frame submits; so a persistently     *)
(* stale view is eventually re-sorted.  Stated for a finite run: every     *)
(* dropped request has an outstanding job whose answer will reopen the     *)
(* scheduler, and the frame that follows the answer of a job, the view     *)
(* being stale, submits.                                                   *)
(***************************************************************************)
C22_DroppedRequestIsRetriedAfterTheJob ==
    [][ /\ (lastOp'.op = "frame" /\ lastOp'.outcome = "dropped")
           => Outstanding = 1
        /\ ( /\ lastOp.op \in {"sortDone", "sortCanceled"}
             /\ Stale
             /\ lastOp'.op = "frame" )
           => lastOp'.outcome = "submitted" ]_vars

\* C22, what holds: the frame that follows the handling of an answer
\* submits when the view is stale, and a request dropped while a job is
\* outstanding leaves that job to be answered
C22_FrameAfterAnswerSubmitsWhenStale ==
    [][ ( /\ lastOp.op \in {"sortDone", "sortCanceled"}
          /\ Stale
          /\ lastOp'.op = "frame" )
        => /\ lastOp'.outcome = "submitted"
           /\ PostsOneSort ]_vars

\* C22, what fails: a request is dropped with no job outstanding and no
\* answer on its way, so nothing will clear sortRunning
C22_DroppedWithNothingToWaitFor ==
    /\ lastOp.op = "frame"
    /\ lastOp.outcome = "dropped"
    /\ Stale
    /\ splatRenderingInitialized
    /\ Outstanding = 0
    /\ toWorker = << >>
    /\ fromWorker = << >>

(***************************************************************************)
(* C23  After a job is canceled the sort is resubmitted: the frame that    *)
(* follows the handling of sortCanceled submits a new job for the current  *)
(* view, also when the camera has not moved since the canceled job was     *)
(* submitted.                                                              *)
(***************************************************************************)
C23_FrameAfterCancelResubmits ==
    [][ (lastOp.op = "sortCanceled" /\ lastOp'.op = "frame")
        => lastOp'.outcome = "submitted" ]_vars

\* C23, what holds: the frame after a cancellation submits iff the pose
\* differs beyond a threshold from the snapshot taken when the canceled
\* job was submitted
C23_FrameAfterCancelSubmitsIffStale ==
    [][ (lastOp.op = "sortCanceled" /\ lastOp'.op = "frame")
        => /\ Stale => lastOp'.outcome = "submitted"
           /\ ~Stale => /\ lastOp'.outcome = "gated"
                         /\ toWorker' = toWorker
                         /\ ~sortRunning' ]_vars

\* C23, what fails: a job was canceled, the camera stands where the
\* snapshot was taken, and the frame after the cancellation is gated
C23_CanceledViewNotResubmitted ==
    /\ lastOp.op = "frame"
    /\ lastOp.outcome = "gated"
    /\ ~sortRunning
    /\ splatRenderingInitialized
    /\ camPos = lastSortViewPos
    /\ ViewDir(camYaw) = lastSortViewDir
    /\ atSubmit = Published(splatIndex, instanceCount)
    /\ vertexRenderCount # instanceCount

\* the step is a call of updateView whose gather pass keeps no bucket
EmptyGatherStep ==
    /\ UpdateViewStep
    /\ lastOp'.outcome \notin {"gated", "dropped"}
    /\ splatBuffer # "none"
    /\ Kept(SceneNodes(splatBuffer), camPos, camYaw, lastOp'.force) = {}

\* the step handles the sortDone of a job of no splats
EmptyJobDone ==
    /\ lastOp'.op = "sortDone"
    /\ Head(fromWorker).vertexRenderCount = 0

(***************************************************************************)
(* C25  Degenerate geometry does not fail: when the gather pass of a       *)
(* request keeps no bucket (or the scene has no splats) the candidate list *)
(* is empty, a job with totalCount 0 and fineSortCount 0 is submitted, in  *)
(* is not modified, and the publish at its completion sets the render      *)
(* count to zero.                                                          *)
(***************************************************************************)
C25_EmptyGatherSubmitsAnEmptyJob ==
    [][ /\ EmptyGatherStep
           => /\ lastOp'.outcome = "submitted"
              /\ nodeRenderList' = << >>
              /\ PostsOneSort
              /\ toWorker'[Len(toWorker')].vertexRenderCount = 0
              /\ toWorker'[Len(toWorker')].vertexSortCount = 0
              /\ inIndexArray' = inIndexArray
        /\ EmptyJobDone => instanceCount' = 0 ]_vars

\* C25, what holds: once setup phase 1 has allocated the index arrays an
\* empty gather pass submits an empty job and leaves in alone, and the
\* sortDone of an empty job publishes a render count of zero
C25_EmptyGatherAfterPhase1 ==
    [][ /\ (EmptyGatherStep /\ indexArraysAllocated)
           => /\ lastOp'.outcome = "submitted"
              /\ nodeRenderList' = << >>
              /\ PostsOneSort
              /\ toWorker'[Len(toWorker')].vertexRenderCount = 0
              /\ toWorker'[Len(toWorker')].vertexSortCount = 0
              /\ inIndexArray' = inIndexArray
        /\ EmptyJobDone => instanceCount' = 0 ]_vars

\* C25, what holds: an empty job of a scene that has splats was published
C25_EmptyJobPublished ==
    /\ lastOp.op = "sortDone"
    /\ splatRenderingInitialized
    /\ VertexCount(splatBuffer) > 0
    /\ nodeRenderList = << >>
    /\ instanceCount = 0

\* scene line seen from the origin: its buckets are 10, 50 and 200 away
LineFromOrigin ==
    /\ splatBuffer = "line"
    /\ camPos = Vec(0, 0, 0)

\* the members of the bucket at 10, at 50 and at 200, in that order
LinePacked == <<1, 4, 7, 10, 13, 0, 3, 6, 9, 12, 2, 5, 8, 11, 14>>

(***************************************************************************)
(* C26  End to end: for a scene of 3 buckets 10, 50 and 200 away from the  *)
(* camera, 5 splats each, all kept, a submitted request leaves in holding  *)
(* the members of the bucket at 10, then of the bucket at 50, then of the  *)
(* bucket at 200, with totalCount 15 and fineSortCount 10; and a second    *)
(* request made before the job completes leaves in as it was submitted.    *)
(***************************************************************************)
C26_ThreeBucketScenario ==
    [][ /\ ( /\ UpdateViewStep
             /\ LineFromOrigin
             /\ lastOp'.outcome = "submitted"
             /\ Len(nodeRenderList') = 3 )
           => /\ inIndexArray' = LinePacked
              /\ vertexRenderCount' = 15
              /\ vertexSortCount' = 10
              /\ PostsOneSort
              /\ toWorker'[Len(toWorker')].vertexRenderCount = 15
              /\ toWorker'[Len(toWorker')].vertexSortCount = 10
        /\ ( /\ UpdateViewStep
             /\ splatBuffer = "line"
             /\ inIndexArray = LinePacked
             /\ Outstanding = 1 )
           => /\ inIndexArray' = inIndexArray
              /\ toWorker' = toWorker ]_vars

\* the scenario's job is in flight and a second request, made from
\* another pose, has been dropped
C26_Witness ==
    /\ splatBuffer = "line"
    /\ lastOp = Op("frame", FALSE, "dropped")
    /\ camPos # lastSortViewPos
    /\ lastSortViewPos = Vec(0, 0, 0)
    /\ Outstanding = 1
    /\ inIndexArray = LinePacked
    /\ vertexRenderCount = 15
    /\ vertexSortCount = 10

(***************************************************************************)
(* C27  After setup, 0 <= vertexSortCount <= vertexRenderCount <= the      *)
(* scene's splat count (the leaf buckets being disjoint sets of splats);   *)
(* so the packing loop, which writes the listed buckets' members and       *)
(* vertexRenderCount entries in all, never writes at or beyond the end of  *)
(* in, whose length is the splat count.                                    *)
(***************************************************************************)
C27_CountsWithinTheSplatCount ==
    splatRenderingInitialized =>
        /\ 0 <= vertexSortCount
        /\ vertexSortCount <= vertexRenderCount
        /\ vertexRenderCount <= VertexCount(splatBuffer)
        /\ Len(inIndexArray) = VertexCount(splatBuffer)
        /\ SumCounts(SceneNodes(splatBuffer), nodeRenderList)
              = vertexRenderCount

\* after setup a pass has kept some buckets and culled others, and only
\* some of the kept ones are near enough to be fine-sorted
C27_Witness ==
    /\ splatRenderingInitialized
    /\ lastOp = Op("frame", FALSE, "submitted")
    /\ 0 < vertexSortCount
    /\ vertexSortCount < vertexRenderCount
    /\ vertexRenderCount < VertexCount(splatBuffer)

(***************************************************************************)
(* C28  No sort job is submitted before the setupComplete message has been *)
(* handled: a frame that runs before it neither posts a sort message nor   *)
(* sets sortRunning, so the forced request of setupComplete finds the      *)
(* scheduler idle and is submitted.                                        *)
(***************************************************************************)
C28_NoJobBeforeSetupComplete ==
    [][ /\ (lastOp'.op = "frame" /\ attributeUploads = 0)
           => /\ toWorker' = toWorker
              /\ ~sortRunning'
        /\ lastOp'.op = "sortSetupComplete"
           => /\ ~sortRunning
              /\ lastOp'.outcome = "submitted" ]_vars

\* C28, what holds: no sort message is posted before setup phase 1 has
\* been handled, and before the scene is loaded a frame changes neither
\* sortRunning nor anything else of the job state
C28_NoJobBeforePhase1 ==
    [][ /\ (lastOp'.op = "frame" /\ ~indexArraysAllocated)
           => toWorker' = toWorker
        /\ (lastOp'.op = "frame" /\ splatBuffer = "none")
           => /\ sortRunning' = sortRunning
              /\ inIndexArray' = inIndexArray ]_vars

\* C28, what fails: the forced request of setupComplete was dropped
\* because a frame had submitted a job between setup phase 1 and
\* setupComplete
C28_ForcedRequestDropped ==
    /\ lastOp = Op("sortSetupComplete", TRUE, "dropped")
    /\ Outstanding = 1
    /\ splatRenderingInitialized

\* the sort message of the job in flight: it holds the pose of the last
\* submission
JobInFlight == toWorker[Len(toWorker)]

\* the camera is 1.0 or more away from where the job was submitted
MovedSinceSubmit ==
    LengthSq(VSub(camPos, JobInFlight.cameraPosition)) >= PosScale * PosScale

\* the camera looks in a direction whose dot product with the direction
\* the job was submitted for is 0.95 or less
TurnedSinceSubmit ==
    100 * VDot(ViewDir(camYaw), ViewDir(JobInFlight.view))
        <= 95 * DirScale * DirScale

(***************************************************************************)
(* C29  The view-change checks measure from the pose of the last           *)
(* submission, not from the previous frame: with the camera moving by less *)
(* than 1.0 and turning by less than the rotation threshold between any    *)
(* two frames, a frame requests a sort iff the camera is 1.0 or more away  *)
(* from the position of the last submission or its direction has dot <=    *)
(* 0.95 with the direction of the last submission; so the first frame at   *)
(* which the accumulated motion reaches a threshold requests the sort.     *)
(***************************************************************************)
C29_ChecksMeasureFromLastSubmission ==
    [][ lastOp'.op = "frame"
        => /\ (lastOp'.outcome # "gated")
                 <=> (MovedSinceSubmit \/ TurnedSinceSubmit)
           /\ toWorker' = toWorker ]_vars

\* the camera has gone, half a unit per frame, to exactly 1.0 from the
\* position of the last submission, its direction unchanged, and the frame
\* there requested a sort (the request was dropped, the job being in
\* flight, and the snapshot stayed where it was)
C29_Witness ==
    /\ lastOp.op = "frame"
    /\ lastOp.outcome = "dropped"
    /\ LengthSq(VSub(camPos, JobInFlight.cameraPosition)) = PosScale * PosScale
    /\ camYaw = JobInFlight.view
    /\ lastSortViewPos = JobInFlight.cameraPosition

\* C29: the same for rotation: two turns of dot > 0.95 each have brought
\* the direction to dot exactly 0.95 with that of the last submission
C29_TurnAccumulated ==
    /\ lastOp.op = "frame"
    /\ lastOp.outcome = "dropped"
    /\ camPos = JobInFlight.cameraPosition
    /\ 100 * VDot(ViewDir(camYaw), ViewDir(JobInFlight.view))
          = 95 * DirScale * DirScale

\* every sort message still in the channel carries the viewer's counts,
\* and so does the sortDone answer waiting to be handled
CountsAreTheJobs ==
    /\ \A i \in 1..Len(toWorker) :
          toWorker[i].kind = "sort"
          => /\ toWorker[i].vertexRenderCount = vertexRenderCount
             /\ toWorker[i].vertexSortCount = vertexSortCount
    /\ \A i \in 1..Len(fromWorker) :
          fromWorker[i].kind = "sortDone"
          => fromWorker[i].vertexRenderCount = vertexRenderCount

(***************************************************************************)
(* C30  While a job is in flight (submitted, its sortDone or sortCanceled  *)
(* not yet handled) vertexRenderCount and vertexSortCount stay equal to    *)
(* the counts its sort message carries, and the first vertexRenderCount    *)
(* entries of in stay as they were packed for it.                          *)
(***************************************************************************)
C30_CountsAndInFrozenWhileInFlight ==
    [][ /\ Outstanding' = 1 => CountsAreTheJobs'
        /\ (Outstanding = 1 /\ Outstanding' = 1)
           => /\ vertexRenderCount' = vertexRenderCount
              /\ vertexSortCount' = vertexSortCount
              /\ \A i \in 1..vertexRenderCount :
                    inIndexArray'[i] = inIndexArray[i] ]_vars

\* the executor has answered a job, the answer is not handled yet, the
\* camera has moved since the submission and a frame's request has been
\* dropped
C30_Witness ==
    /\ lastOp = Op("frame", FALSE, "dropped")
    /\ Outstanding = 1
    /\ fromWorker # << >>
    /\ Head(fromWorker).kind = "sortDone"
    /\ Head(fromWorker).vertexRenderCount = vertexRenderCount
    /\ camPos # lastSortViewPos
    /\ 0 < vertexSortCount
    /\ vertexSortCount < vertexRenderCount
    /\ vertexRenderCount < VertexCount(splatBuffer)

\* every element of an index array is the index of a splat of the scene
ValidIndexes(in) ==
    \A i \in 1..Len(in) : 0 <= in[i] /\ in[i] < VertexCount(splatBuffer)

(***************************************************************************)
(* C31  After setup phase 1 every element of in is a valid splat index     *)
(* (0 <= in[i] < splat count), before and after every gather pass of any   *)
(* sequence of passes with different candidate lists; a pass leaves the    *)
(* entries at positions >= its vertexRenderCount as the seeding or the     *)
(* earlier passes left them.                                               *)
(***************************************************************************)
C31_InHoldsValidIndexes ==
    [][ /\ ValidIndexes(inIndexArray)
        /\ ValidIndexes(inIndexArray')
        /\ Len(inIndexArray') = VertexCount(splatBuffer)
        /\ (PassStep(FALSE) \/ PassStep(TRUE))
           => \A i \in (vertexRenderCount' + 1)..Len(inIndexArray) :
                 inIndexArray'[i] = inIndexArray[i] ]_vars

\* after passes with different candidate lists, an entry past the last
\* pass's count holds what an earlier pass wrote there, not its seed, and
\* in holds some index twice
C31_Witness ==
    /\ PassDone(FALSE)
    /\ 0 < vertexRenderCount
    /\ vertexRenderCount < VertexCount(splatBuffer)
    /\ \E i \in (vertexRenderCount + 1)..Len(inIndexArray) :
          inIndexArray[i] # i - 1
    /\ \E i, j \in 1..Len(inIndexArray) :
          i # j /\ inIndexArray[i] = inIndexArray[j]

\* the last characters of name are those of suffix, position by position
HasSuffix(name, suffix) ==
    /\ Len(suffix) <= Len(name)
    /\ \A k \in 1..Len(suffix) :
          name[Len(name) - Len(suffix) + k] = suffix[k]

(***************************************************************************)
(* C32  loadFile with a file name that ends in neither '.splat' nor '.ply' *)
(* returns a promise rejected with the 'File format not supported' error   *)
(* and leaves the viewer unchanged: no splat buffer, octree or sort worker *)
(* is created and sortRunning stays false.                                 *)
(***************************************************************************)
C32_UnsupportedFileNameRejects ==
    [][ \A name \in FileNames :
          ( /\ ~HasSuffix(name, SplatSuffix)
            /\ ~HasSuffix(name, PlySuffix)
            /\ LoadFileByName(name) )
          => /\ lastOp' = Op("loadFile", FALSE, "File format not supported")
             /\ UNCHANGED <<splatBuffer, workerState, sortRunning,
                            vertexRenderCount, vertexSortCount,
                            indexArraysAllocated, inIndexArray,
                            outIndexArray, splatIndex, instanceCount,
                            toWorker, fromWorker, splatRenderingInitialized,
                            loadFileResolved, attributeUploads>> ]_vars

\* loadFile has rejected a file name and the viewer is as constructed
C32_Witness ==
    /\ lastOp = Op("loadFile", FALSE, "File format not supported")
    /\ splatBuffer = "none"
    /\ workerState = "none"
    /\ ~sortRunning
    /\ ~loadFileResolved
    /\ toWorker = << >>

(***************************************************************************)
(* C33  start() on a viewer that is not in self-driven mode throws,        *)
(* requests no frame and leaves selfDrivenModeRunning false; in            *)
(* self-driven mode it requests the first frame and sets                   *)
(* selfDrivenModeRunning; and each self-driven frame requests the next one *)
(* before it runs update and render, so the next frame is pending whether  *)
(* they return or throw.                                                   *)
(***************************************************************************)
C33_StartAndSelfDrivenFrames ==
    [][ /\ (lastOp'.op = "start" /\ ~selfDrivenMode)
           => /\ lastOp'.outcome = "threw"
              /\ animationFrames' = animationFrames
              /\ ~selfDrivenModeRunning'
        /\ (lastOp'.op = "start" /\ selfDrivenMode)
           => /\ lastOp'.outcome = "none"
              /\ animationFrames' = animationFrames + 1
              /\ selfDrivenModeRunning'
        /\ lastOp'.op = "frame"
           => /\ selfDrivenModeRunning
              /\ animationFrames >= 1
              /\ animationFrames' = animationFrames
        /\ ~selfDrivenMode => animationFrames' = 0 ]_vars

\* a self-driven frame whose update threw has left the next frame pending
C33_Witness ==
    /\ lastOp.op = "frame"
    /\ ~Returned(lastOp.outcome)
    /\ selfDrivenModeRunning
    /\ animationFrames = 1

\* C33: start() has thrown on a viewer that is not in self-driven mode
C33_StartRefused ==
    /\ lastOp = Op("start", FALSE, "threw")
    /\ ~selfDrivenMode
    /\ ~selfDrivenModeRunning
    /\ animationFrames = 0

(***************************************************************************)
(* Vocabulary of the properties of SplatAnim.applyBindingTransform         *)
(***************************************************************************)
\* the per-face tables
Tables == {"orientations", "scales", "faceCenters", "quats"}

\* two SplatAnim objects hold the same entries at index b of every table
SameEntries(a1, a2, b) ==
    \A t \in Tables : Read(a1, t, b).value = Read(a2, t, b).value

\* C34: a call of applyBindingTransform on a SplatAnim whose faces array
\* exists, with a binding at or beyond the number of faces, sets the
\* position to the origin, leaves the rotation as it was, reads no entry of
\* orientations, scales, faceCenters or quats, and returns; with a binding
\* below the number of faces it reads the tables at that binding only, and
\* the splat it leaves is the one any other mesh with the same entries at
\* that binding would give.
C34_BindingBeyondFacesGoesToOrigin ==
    [][lastOp'.op = "applyBindingTransform" /\ ~anim.facesIsNull =>
          IF binding' >= Len(anim.faces)
          THEN /\ splat'.position = Origin
               /\ splat'.rotation = splat.rotation
               /\ reads' = {}
               /\ lastOp'.outcome = "none"
          ELSE /\ reads' \subseteq {<<t, binding'>> : t \in Tables}
               /\ \A m \in Meshes :
                     LET other == [UpdateMesh(anim, m)
                                      EXCEPT !.scale = anim.scale]
                     IN  binding' < Len(m) /\ SameEntries(other, anim, binding')
                            => TransformOf(other, binding', splat).splat
                                  = splat']_vars

\* a turned splat bound to face 1 of a one-face mesh has been sent to the
\* origin, still turned, with no table read
C34_Witness ==
    /\ lastOp = Op("applyBindingTransform", FALSE, "none")
    /\ anim.referenceMesh
    /\ Len(anim.faces) = 1
    /\ binding = 1
    /\ reads = {}
    /\ splat.position = Origin
    /\ splat.rotation # <<0, 0, 0, 1>>

\* a splat bound to the second of two faces has been moved by that face's
\* entries
C34_BoundToSecondFace ==
    /\ lastOp = Op("applyBindingTransform", FALSE, "none")
    /\ Len(anim.faces) = 2
    /\ binding = 1
    /\ reads = {<<t, 1>> : t \in Tables}
    /\ splat.position # Origin

====
